---- MODULE Spec2Model ----
(***************************************************************************)
(* Verification model of core-cartographer: translation-pair matching      *)
(* (file_utils.py, gui/data_manager.py), the derived views of DocumentSet  *)
(* (models.py), the response parsers, the extraction functions and the     *)
(* documents section of the prompt (extractor.py), the streaming route     *)
(* (backend/src/api/routes/extraction.py) and estimate_cost, whose floats  *)
(* are computed as IEEE-754 binary64 values (cost_estimator.py).           *)
(*                                                                         *)
(* Python strings are modelled as sequences of one-character strings, so   *)
(* that the regular expressions of the source are computed character by    *)
(* character.                                                              *)
(***************************************************************************)
EXTENDS Integers, Sequences, FiniteSets, TLC

VARIABLES
    df,                 \* find_pairs: the dataframe rows [Filename, Language, Pair]
    base_col,           \* find_pairs: the temporary "base_name" column
    idx,                \* find_pairs: position of df.iterrows()
    processed,          \* find_pairs: set of processed filenames
    pair_number,        \* find_pairs: next pair number
    call,               \* find_translation_pair: the arguments of the call
    returned,           \* find_translation_pair: the returned value
    documents,          \* DocumentSet.documents
    paired_documents,   \* value of DocumentSet.paired_documents
    unpaired_documents, \* value of DocumentSet.unpaired_documents
    response_text,      \* the text of the model's answer
    subtypes,           \* the subtype names of the requested document_sets
    written,            \* the two texts put into an answer of the response format
    parsed,             \* value of _parse_response(response_text)
    results,            \* value of _parse_batch_response(response_text, ...)
    debug_mode,         \* settings.debug_mode
    mode,               \* which extraction function runs: "single" or "batch"
    prompt_tokens,      \* count_tokens(prompt) of the built prompt
    response,           \* what client.messages.create gave: a message or an error
    llm_calls,          \* number of calls of client.messages.create
    debug_files,        \* the files written below settings.debug_dir
    outcome,            \* how the extraction function ended: a value or an exception
    trace,              \* the stages the extraction function went through
    request,            \* extract-stream: the ExtractionRequest
    document_sets,      \* extract-stream: the DocumentSets built from the request
    current,            \* extract-stream: index i of the loop over document_sets
    stream_results,     \* extract-stream: the dict results of the route
    extractions,        \* extract-stream: the calls of extract_rules_and_guidelines made
    events,             \* extract-stream: the events yielded so far
    section_sets,       \* _build_documents_section: the document_sets argument
    sections,           \* _build_documents_section: the parts of the section, in order
    cost_call,          \* estimate_cost: the arguments of the call
    cost_returned,      \* estimate_cost: the returned float
    name_call,          \* file name functions: the arguments of the call
    name_returned,      \* file name functions: the returned value
    cache_files,        \* file cache: the <id>.json files of CACHE_DIR
    cache_locks,        \* file cache: the inode that <id>.lock names, 0 if there is no such file
    accessors,          \* file cache: what each concurrent accessor is doing
    clock,              \* file cache: datetime.utcnow()
    stored,             \* file cache: what store was called with and when it returned
    deleted_ids,        \* file cache: the ids delete was called with
    cache_ops,          \* file cache: the number of operations started
    shared_settings,    \* the Settings object that get_settings() hands to every request
    in_flight,          \* concurrent extract-stream requests: where each of them is
    served,             \* concurrent extract-stream requests: the extractions made
    request_files,      \* run_auto_detect: the files the request refers to
    analysis_results,   \* run_auto_detect: results
    paired_ids,         \* run_auto_detect: paired_ids
    pair_counter,       \* run_auto_detect: pair_counter
    scan,               \* run_auto_detect: the positions of the loops and missing_files
    analysis_response,  \* run_auto_detect: the response or the error raised
    pc                  \* position of the running operation

pairVars == <<df, base_col, idx, processed, pair_number>>

matchVars == <<call, returned>>

viewVars == <<documents, paired_documents, unpaired_documents>>

parseVars == <<response_text, subtypes, written, parsed, results>>

extractVars ==
    <<debug_mode, mode, prompt_tokens, response, llm_calls, debug_files, outcome, trace>>

streamVars == <<request, document_sets, current, stream_results, extractions, events>>

sectionVars == <<section_sets, sections>>

costVars == <<cost_call, cost_returned>>

nameVars == <<name_call, name_returned>>

cacheVars ==
    <<cache_files, cache_locks, accessors, clock, stored, deleted_ids, cache_ops>>

serveVars == <<shared_settings, in_flight, served>>

analysisVars == <<request_files, analysis_results, paired_ids, pair_counter, scan, analysis_response>>

backendVars == <<nameVars, cacheVars, serveVars, analysisVars>>

runVars == <<extractVars, streamVars, sectionVars, costVars, backendVars>>

\* what the extraction functions leave alone
outsideExtract ==
    <<pairVars, matchVars, viewVars, streamVars, sectionVars, costVars, backendVars>>

\* what the streaming route leaves alone
outsideStream ==
    <<pairVars, matchVars, viewVars, parseVars, extractVars, sectionVars, costVars,
      backendVars>>

\* what the prompt builder leaves alone
outsideSection ==
    <<pairVars, matchVars, viewVars, parseVars, extractVars, streamVars, costVars,
      backendVars>>

\* what estimate_cost leaves alone
outsideCost ==
    <<pairVars, matchVars, viewVars, parseVars, extractVars, streamVars, sectionVars,
      backendVars>>

vars == <<pairVars, matchVars, viewVars, parseVars, runVars, pc>>

\* the variables of the operations that are not running
MatchIdle == call = <<>> /\ returned = <<>>

ViewIdle == documents = <<>> /\ paired_documents = <<>> /\ unpaired_documents = <<>>

ParseIdle ==
    /\ response_text = <<>> /\ subtypes = <<>> /\ written = <<>>
    /\ parsed = <<>> /\ results = <<>>

PairsIdle ==
    df = <<>> /\ base_col = <<>> /\ idx = 0 /\ processed = {} /\ pair_number = 1

ExtractIdle ==
    /\ debug_mode = FALSE /\ mode = "" /\ prompt_tokens = 0 /\ response = <<>>
    /\ llm_calls = 0 /\ debug_files = {} /\ outcome = <<>> /\ trace = <<>>

StreamIdle ==
    /\ request = <<>> /\ document_sets = <<>> /\ current = 0
    /\ stream_results = <<>> /\ extractions = <<>> /\ events = <<>>

SectionIdle == section_sets = <<>> /\ sections = <<>>

CostIdle == cost_call = <<>> /\ cost_returned = <<>>

NameIdle == name_call = <<>> /\ name_returned = <<>>

CacheIdle ==
    /\ cache_files = <<>> /\ cache_locks = <<>> /\ accessors = <<>>
    /\ clock = 0 /\ stored = <<>> /\ deleted_ids = {} /\ cache_ops = 0

ServeIdle == shared_settings = <<>> /\ in_flight = <<>> /\ served = {}

AnalysisIdle ==
    /\ request_files = <<>> /\ analysis_results = <<>> /\ paired_ids = {}
    /\ pair_counter = 0 /\ scan = <<>> /\ analysis_response = <<>>

BackendIdle == NameIdle /\ CacheIdle /\ ServeIdle /\ AnalysisIdle

RunIdle == ExtractIdle /\ StreamIdle /\ SectionIdle /\ CostIdle /\ BackendIdle

(***************************************************************************)
(* Bounds                                                                  *)
(***************************************************************************)
MaxDocs == 3

(***************************************************************************)
(* Character helpers                                                       *)
(***************************************************************************)
LowerSeq == <<"a","b","c","d","e","f","g","h","i","j","k","l","m",
              "n","o","p","q","r","s","t","u","v","w","x","y","z">>

UpperSeq == <<"A","B","C","D","E","F","G","H","I","J","K","L","M",
              "N","O","P","Q","R","S","T","U","V","W","X","Y","Z">>

\* the character U+0060 (grave accent), written out because it cannot stand
\* between the quotes of a string here
Backtick == "GRAVE"

IsLower(c) == \E i \in 1..26 : LowerSeq[i] = c

IsUpper(c) == \E i \in 1..26 : UpperSeq[i] = c

IsLetter(c) == IsLower(c) \/ IsUpper(c)

\* str.upper() on one character
UpperChar(c) ==
    IF IsLower(c) THEN UpperSeq[CHOOSE i \in 1..26 : LowerSeq[i] = c] ELSE c

\* str.lower() on one character
LowerChar(c) ==
    IF IsUpper(c) THEN LowerSeq[CHOOSE i \in 1..26 : UpperSeq[i] = c] ELSE c

\* str.upper()
Upper(s) == [i \in 1..Len(s) |-> UpperChar(s[i])]

\* str.lower()
Lower(s) == [i \in 1..Len(s) |-> LowerChar(s[i])]

\* regex \s
IsSpace(c) == c \in {" ", "\n", "\t"}

\* regex [\s_\-]
IsSep(c) == IsSpace(c) \/ c \in {"_", "-"}

\* s[i:] of Python, for a 1-based position i
From(s, i) == SubSeq(s, i, Len(s))

\* s[:i] of Python: the characters before the 1-based position i
Before(s, i) == SubSeq(s, 1, i - 1)

\* s.startswith(p) at position i
LitAt(s, i, p) ==
    /\ i + Len(p) - 1 <= Len(s)
    /\ \A k \in 1..Len(p) : s[i + k - 1] = p[k]

\* two characters are equal under re.IGNORECASE
SameCharI(a, b) == a = b \/ (IsLetter(b) /\ UpperChar(a) = UpperChar(b))

\* the same under re.IGNORECASE
LitAtI(s, i, p) ==
    /\ i + Len(p) - 1 <= Len(s)
    /\ \A k \in 1..Len(p) : SameCharI(s[i + k - 1], p[k])

\* first position >= i that is not matched by a greedy \s*
RECURSIVE SkipSpace(_, _)
SkipSpace(s, i) ==
    IF i <= Len(s) /\ IsSpace(s[i]) THEN SkipSpace(s, i + 1) ELSE i

\* str.strip(chars)
RECURSIVE LStrip(_, _)
LStrip(s, chars) ==
    IF s # <<>> /\ Head(s) \in chars THEN LStrip(Tail(s), chars) ELSE s

RECURSIVE RStrip(_, _)
RStrip(s, chars) ==
    IF s # <<>> /\ s[Len(s)] \in chars
    THEN RStrip(SubSeq(s, 1, Len(s) - 1), chars) ELSE s

StripChars(s, chars) == RStrip(LStrip(s, chars), chars)

\* str.strip()
Strip(s) == StripChars(s, {" ", "\n", "\t"})

(***************************************************************************)
(* file_utils.py                                                           *)
(***************************************************************************)
LANGUAGE_CODES ==
    { <<"E","N">>, <<"D","E">>, <<"F","R">>, <<"N","L">>, <<"E","S">>,
      <<"I","T">>, <<"P","T">>, <<"P","L">>, <<"R","U">>, <<"J","A">>,
      <<"Z","H">>, <<"K","O">>, <<"A","R">>, <<"H","E">>, <<"T","R">>,
      <<"C","S">>, <<"S","K">>, <<"H","U">>, <<"R","O">>, <<"B","G">>,
      <<"H","R">>, <<"S","L">>, <<"S","R">>, <<"U","K">>, <<"D","A">>,
      <<"N","O">>, <<"S","V">>, <<"F","I">>, <<"E","L">>, <<"T","H">>,
      <<"V","I">>, <<"I","D">>, <<"M","S">>, <<"T","L">> }

UNKNOWN == <<"U","N","K","N","O","W","N">>

\* a pattern of language codes that knows the code EN only
CodeAtEnglishOnly(s, i) ==
    /\ i + 1 <= Len(s)
    /\ <<UpperChar(s[i]), UpperChar(s[i + 1])>> = <<"E","N">>

\* a whitelisted code stands at position i (re.IGNORECASE)
CodeAt(s, i) ==
    /\ i + 1 <= Len(s)
    /\ <<UpperChar(s[i]), UpperChar(s[i + 1])>> \in LANGUAGE_CODES

\* Path(filename).stem: the name without its last suffix
LastDot(s) ==
    IF \E i \in 1..Len(s) : s[i] = "."
    THEN CHOOSE i \in 1..Len(s) :
            s[i] = "." /\ \A j \in (i + 1)..Len(s) : s[j] # "."
    ELSE 0

Stem(s) ==
    IF 1 < LastDot(s) /\ LastDot(s) < Len(s) THEN Before(s, LastDot(s)) ELSE s

\* re.sub(r"^[a-z]{2}-[a-z]{2}-?\s*_", "", name, flags=re.IGNORECASE)
StripLocalePrefix(s) ==
    IF /\ Len(s) >= 5
       /\ IsLetter(s[1]) /\ IsLetter(s[2]) /\ s[3] = "-"
       /\ IsLetter(s[4]) /\ IsLetter(s[5])
    THEN LET j == IF Len(s) >= 6 /\ s[6] = "-" THEN 7 ELSE 6
             k == SkipSpace(s, j)
         IN  IF k <= Len(s) /\ s[k] = "_" THEN From(s, k + 1) ELSE s
    ELSE s

\* re.sub(rf"[_\-\(\[]({lang_pattern})[_\-\)\]]", "", name, flags=re.IGNORECASE)
RECURSIVE StripDelimitedCodes(_)
StripDelimitedCodes(s) ==
    IF s = <<>> THEN <<>>
    ELSE IF /\ Len(s) >= 4
            /\ s[1] \in {"_", "-", "(", "["}
            /\ CodeAt(s, 2)
            /\ s[4] \in {"_", "-", ")", "]"}
         THEN StripDelimitedCodes(From(s, 5))
         ELSE <<Head(s)>> \o StripDelimitedCodes(Tail(s))

\* start of the run of separators that ends just before position k
RECURSIVE SepRunStart(_, _)
SepRunStart(s, k) ==
    IF k > 1 /\ IsSep(s[k - 1]) THEN SepRunStart(s, k - 1) ELSE k

\* re.sub(rf"[\s_\-]*({lang_pattern})[\s_\-]*$", "", name, flags=re.IGNORECASE)
StripTrailingCode(s) ==
    LET t == RStrip(s, {" ", "\n", "\t", "_", "-"})
        k == Len(t) - 1
    IN  IF k >= 1 /\ CodeAt(t, k) THEN Before(s, SepRunStart(s, k)) ELSE s

\* re.sub(r"[\s_\-]{2,}", "_", name)
RECURSIVE CollapseSeps(_)
CollapseSeps(s) ==
    IF s = <<>> THEN <<>>
    ELSE IF IsSep(s[1])
         THEN LET rest == LStrip(s, {" ", "\n", "\t", "_", "-"})
              IN  IF Len(s) - Len(rest) >= 2
                  THEN <<"_">> \o CollapseSeps(rest)
                  ELSE <<s[1]>> \o CollapseSeps(rest)
         ELSE <<s[1]>> \o CollapseSeps(Tail(s))

\* re.sub(r"-+_", "_", name)
RECURSIVE StripDashUnderscore(_)
StripDashUnderscore(s) ==
    IF s = <<>> THEN <<>>
    ELSE IF s[1] = "-"
         THEN LET rest == LStrip(s, {"-"})
              IN  IF rest # <<>> /\ rest[1] = "_"
                  THEN <<"_">> \o StripDashUnderscore(Tail(rest))
                  ELSE Before(s, Len(s) - Len(rest) + 1)
                           \o StripDashUnderscore(rest)
         ELSE <<s[1]>> \o StripDashUnderscore(Tail(s))

find_base_name(filename) ==
    Lower(StripDashUnderscore(
        StripChars(
            CollapseSeps(
                StripTrailingCode(
                    StripDelimitedCodes(
                        StripLocalePrefix(Stem(filename))))),
            {"_", "-", " "})))

None == <<"None">>

\* the candidate loop without the "skip same language" test
RECURSIVE MatchFromAnyLanguage(_, _, _, _)
MatchFromAnyLanguage(my_base, language, candidates, i) ==
    IF i > Len(candidates) THEN 0
    ELSE IF /\ my_base # <<>>
            /\ candidates[i][3] # <<>>
            /\ my_base = candidates[i][3]
         THEN i
         ELSE MatchFromAnyLanguage(my_base, language, candidates, i + 1)

\* the candidate loop keeping the last qualifying candidate instead of the first
RECURSIVE MatchFromLast(_, _, _, _)
MatchFromLast(my_base, language, candidates, i) ==
    IF i > Len(candidates) THEN 0
    ELSE IF MatchFromLast(my_base, language, candidates, i + 1) # 0
         THEN MatchFromLast(my_base, language, candidates, i + 1)
         ELSE IF /\ candidates[i][2] # language
                 /\ my_base # <<>>
                 /\ candidates[i][3] # <<>>
                 /\ my_base = candidates[i][3]
              THEN i
              ELSE 0

\* the candidate loop giving up after the first candidate of another language
RECURSIVE MatchFromFirstOnly(_, _, _, _)
MatchFromFirstOnly(my_base, language, candidates, i) ==
    IF i > Len(candidates) THEN 0
    ELSE IF candidates[i][2] = language
         THEN MatchFromFirstOnly(my_base, language, candidates, i + 1)
         ELSE IF /\ my_base # <<>>
                 /\ candidates[i][3] # <<>>
                 /\ my_base = candidates[i][3]
              THEN i
              ELSE 0

\* index of the candidate find_translation_pair returns, 0 for None;
\* candidates are tuples <<filename, language, base_name>>
RECURSIVE MatchFrom(_, _, _, _)
MatchFrom(my_base, language, candidates, i) ==
    IF i > Len(candidates) THEN 0
    ELSE IF candidates[i][2] = language
         THEN MatchFrom(my_base, language, candidates, i + 1)
         ELSE IF /\ my_base # <<>>
                 /\ candidates[i][3] # <<>>
                 /\ my_base = candidates[i][3]
              THEN i
              ELSE MatchFrom(my_base, language, candidates, i + 1)

MatchIndex(filename, language, candidates) ==
    MatchFrom(find_base_name(filename), language, candidates, 1)

find_translation_pair(filename, language, candidates) ==
    IF MatchIndex(filename, language, candidates) = 0 THEN None
    ELSE candidates[MatchIndex(filename, language, candidates)][1]

(***************************************************************************)
(* gui/data_manager.py: find_pairs                                         *)
(***************************************************************************)
Dash == <<"-">>

DigitSeq == <<"0","1","2","3","4","5","6","7","8","9">>

\* str(n) for a non-negative integer
RECURSIVE Str(_)
Str(n) ==
    IF n < 10 THEN <<DigitSeq[n + 1]>>
    ELSE Str(n \div 10) \o <<DigitSeq[(n % 10) + 1]>>

\* filenames of the uploaded files
FileNames ==
    { <<"c","_","E","N",".","t">>, <<"c","_","D","E",".","t">>,
      <<"c","-","F","R">>, <<"E","N",".","t">>, <<"D","E",".","t">>,
      <<"g","_","D","E",".","t">> }

\* values of the Language column
Languages == { <<"E","N">>, <<"D","E">>, <<"F","R">>, UNKNOWN }

\* the dataframe create_file_dataframe and detect_languages produce from the
\* filenames fs (the keys of file_data) and their languages ls
DataFrame(fs, ls) ==
    [i \in 1..Len(fs) |-> [Filename |-> fs[i], Language |-> ls[i], Pair |-> Dash]]

\* candidates_df without the (df["Language"] != "UNKNOWN") condition
CandidateRowsWithUnknown(i) ==
    { j \in 1..Len(df) :
        /\ df[j].Filename \notin processed
        /\ df[j].Filename # df[i].Filename
        /\ df[j].Language # df[i].Language }

\* positions of the rows of candidates_df, in dataframe order
CandidateRows(i) ==
    { j \in 1..Len(df) :
        /\ df[j].Filename \notin processed
        /\ df[j].Filename # df[i].Filename
        /\ df[j].Language # df[i].Language
        /\ df[j].Language # UNKNOWN }

\* the ascending enumeration of a finite set of integers
RECURSIVE Ascending(_)
Ascending(S) ==
    IF S = {} THEN <<>>
    ELSE LET m == CHOOSE x \in S : \A y \in S : x <= y
         IN  <<m>> \o Ascending(S \ {m})

\* the candidate list: (Filename, Language, base_name) of each candidate row
Candidates(i) ==
    LET rows == Ascending(CandidateRows(i))
    IN  [k \in 1..Len(rows) |->
            <<df[rows[k]].Filename, df[rows[k]].Language, base_col[rows[k]]>>]

\* df.loc[df["Filename"] == f, "Pair #"] = p
SetPairByFilename(d, f, p) ==
    [j \in 1..Len(d) |-> IF d[j].Filename = f THEN [d[j] EXCEPT !.Pair = p] ELSE d[j]]

PairsInit ==
    /\ MatchIdle /\ ViewIdle /\ ParseIdle /\ RunIdle
    /\ \E n \in 0..MaxDocs :
          \E fs \in [1..n -> FileNames], ls \in [1..n -> Languages] :
              /\ \A i, j \in 1..n : i # j => fs[i] # fs[j]
              /\ df = DataFrame(fs, ls)
    /\ base_col = <<>>
    /\ idx = 0
    /\ processed = {}
    /\ pair_number = 1
    /\ pc = "find_pairs"

\* df.copy(); df["base_name"] = ...; pair_number = 1; processed = set()
FindPairsBegin ==
    /\ UNCHANGED <<matchVars, viewVars, parseVars, runVars>>
    /\ pc = "find_pairs"
    /\ base_col' = [i \in 1..Len(df) |-> find_base_name(df[i].Filename)]
    /\ pair_number' = 1
    /\ processed' = {}
    /\ idx' = 1
    /\ pc' = "loop"
    /\ UNCHANGED df

InLoop == pc = "loop" /\ idx <= Len(df)

\* if filename in processed: continue
IterProcessed ==
    /\ UNCHANGED <<matchVars, viewVars, parseVars, runVars>>
    /\ InLoop
    /\ df[idx].Filename \in processed
    /\ idx' = idx + 1
    /\ UNCHANGED <<df, base_col, processed, pair_number, pc>>

\* if language == "UNKNOWN": mark "-" and continue
IterUnknown ==
    /\ UNCHANGED <<matchVars, viewVars, parseVars, runVars>>
    /\ InLoop
    /\ df[idx].Filename \notin processed
    /\ df[idx].Language = UNKNOWN
    /\ df' = [df EXCEPT ![idx].Pair = Dash]
    /\ processed' = processed \cup {df[idx].Filename}
    /\ idx' = idx + 1
    /\ UNCHANGED <<base_col, pair_number, pc>>

\* if len(candidates_df) == 0: mark "-" and continue
IterNoCandidates ==
    /\ UNCHANGED <<matchVars, viewVars, parseVars, runVars>>
    /\ InLoop
    /\ df[idx].Filename \notin processed
    /\ df[idx].Language # UNKNOWN
    /\ CandidateRows(idx) = {}
    /\ df' = [df EXCEPT ![idx].Pair = Dash]
    /\ processed' = processed \cup {df[idx].Filename}
    /\ idx' = idx + 1
    /\ UNCHANGED <<base_col, pair_number, pc>>

\* the matched branch without processed.add(match)
IterMatchedKeepsMatch ==
    /\ UNCHANGED <<matchVars, viewVars, parseVars, runVars>>
    /\ InLoop
    /\ df[idx].Filename \notin processed
    /\ df[idx].Language # UNKNOWN
    /\ CandidateRows(idx) # {}
    /\ LET match == find_translation_pair(df[idx].Filename, df[idx].Language,
                                          Candidates(idx))
       IN  /\ match # None
           /\ df' = SetPairByFilename(
                        SetPairByFilename(df, df[idx].Filename, Str(pair_number)),
                        match, Str(pair_number))
           /\ processed' = processed \cup {df[idx].Filename}
    /\ pair_number' = pair_number + 1
    /\ idx' = idx + 1
    /\ UNCHANGED <<base_col, pc>>

\* a match was found: both rows get str(pair_number)
IterMatched ==
    /\ UNCHANGED <<matchVars, viewVars, parseVars, runVars>>
    /\ InLoop
    /\ df[idx].Filename \notin processed
    /\ df[idx].Language # UNKNOWN
    /\ CandidateRows(idx) # {}
    /\ LET match == find_translation_pair(df[idx].Filename, df[idx].Language,
                                          Candidates(idx))
       IN  /\ match # None
           /\ df' = SetPairByFilename(
                        SetPairByFilename(df, df[idx].Filename, Str(pair_number)),
                        match, Str(pair_number))
           /\ processed' = processed \cup {df[idx].Filename, match}
    /\ pair_number' = pair_number + 1
    /\ idx' = idx + 1
    /\ UNCHANGED <<base_col, pc>>

\* an unmatched document that uses up a pair number
IterNoMatchSkipsNumber ==
    /\ UNCHANGED <<matchVars, viewVars, parseVars, runVars>>
    /\ InLoop
    /\ df[idx].Filename \notin processed
    /\ df[idx].Language # UNKNOWN
    /\ CandidateRows(idx) # {}
    /\ find_translation_pair(df[idx].Filename, df[idx].Language,
                             Candidates(idx)) = None
    /\ df' = [df EXCEPT ![idx].Pair = Dash]
    /\ processed' = processed \cup {df[idx].Filename}
    /\ pair_number' = pair_number + 1
    /\ idx' = idx + 1
    /\ UNCHANGED <<base_col, pc>>

\* no match among the candidates: mark "-"
IterNoMatch ==
    /\ UNCHANGED <<matchVars, viewVars, parseVars, runVars>>
    /\ InLoop
    /\ df[idx].Filename \notin processed
    /\ df[idx].Language # UNKNOWN
    /\ CandidateRows(idx) # {}
    /\ find_translation_pair(df[idx].Filename, df[idx].Language,
                             Candidates(idx)) = None
    /\ df' = [df EXCEPT ![idx].Pair = Dash]
    /\ processed' = processed \cup {df[idx].Filename}
    /\ idx' = idx + 1
    /\ UNCHANGED <<base_col, pair_number, pc>>

\* return df.drop(columns=["base_name"])
FindPairsReturn ==
    /\ UNCHANGED <<matchVars, viewVars, parseVars, runVars>>
    /\ pc = "loop"
    /\ idx > Len(df)
    /\ base_col' = <<>>
    /\ pc' = "done"
    /\ UNCHANGED <<df, idx, processed, pair_number>>

PairsNext ==
    \/ FindPairsBegin
    \/ IterProcessed
    \/ IterUnknown
    \/ IterNoCandidates
    \/ IterMatched
    \/ IterNoMatch
    \/ FindPairsReturn

SpecPairs == PairsInit /\ [][PairsNext]_vars

(***************************************************************************)
(* Properties of find_pairs                                                *)
(***************************************************************************)
RowsWithPair(p) == { j \in 1..Len(df) : df[j].Pair = p }

\* C1: after find_pairs every pair id is "-" or is carried by exactly two
\* rows, and these two rows have different languages
C1_PairIdsJoinTwoLanguages ==
    pc = "done" =>
        \A i \in 1..Len(df) :
            \/ df[i].Pair = Dash
            \/ /\ Cardinality(RowsWithPair(df[i].Pair)) = 2
               /\ \A j \in RowsWithPair(df[i].Pair) :
                      j # i => df[j].Language # df[i].Language

\* three files of one base name and three known languages: one pair is made
\* and the third file stays alone
C1_Witness ==
    /\ pc = "done"
    /\ Len(df) = 3
    /\ \A i, j \in 1..3 :
          /\ find_base_name(df[i].Filename) = find_base_name(df[j].Filename)
          /\ i # j => df[i].Language # df[j].Language
    /\ \A i \in 1..3 : df[i].Language # UNKNOWN
    /\ \E i \in 1..3 : df[i].Pair # Dash
    /\ \E i \in 1..3 : df[i].Pair = Dash

\* C4: a row whose language is "UNKNOWN" carries "-" in every state of
\* find_pairs, so it is never chosen as a partner and never paired
C4_UnknownNeverPaired ==
    \A i \in 1..Len(df) : df[i].Language = UNKNOWN => df[i].Pair = Dash

\* an UNKNOWN file stands between two files of its own base name that get paired
C4_Witness ==
    /\ pc = "done"
    /\ \E i, j, k \in 1..Len(df) :
          /\ i < j /\ j < k
          /\ df[j].Language = UNKNOWN
          /\ find_base_name(df[j].Filename) = find_base_name(df[i].Filename)
          /\ find_base_name(df[j].Filename) = find_base_name(df[k].Filename)
          /\ df[i].Pair # Dash
          /\ df[i].Pair = df[k].Pair
          /\ df[j].Pair = Dash

(***************************************************************************)
(* find_translation_pair as a function of its arguments                    *)
(***************************************************************************)
MaxCandidates == 2

QueryFiles ==
    { <<"c","_","E","N",".","t">>, <<"E","N",".","t">>, <<"g","_","D","E",".","t">> }

QueryLanguages == { <<"E","N">>, <<"D","E">>, <<"F","R">> }

CandidateFiles ==
    { <<"c","_","D","E",".","t">>, <<"D","E",".","t">>, <<"c","-","F","R">> }

CandidateBases == { <<>>, <<"c">>, <<"g">> }

CandidateTuples == CandidateFiles \X QueryLanguages \X CandidateBases

CandidateLists == UNION { [1..n -> CandidateTuples] : n \in 0..MaxCandidates }

MatchInit ==
    /\ df = <<>> /\ base_col = <<>> /\ idx = 0 /\ processed = {} /\ pair_number = 1
    /\ ViewIdle /\ ParseIdle /\ RunIdle
    /\ call \in [filename : QueryFiles, language : QueryLanguages,
                 candidates : CandidateLists]
    /\ returned = <<>>
    /\ pc = "find_translation_pair"

\* the call returns: the position of the chosen candidate and the value
CallFindTranslationPair ==
    /\ pc = "find_translation_pair"
    /\ returned' = [index |-> MatchIndex(call.filename, call.language, call.candidates),
                    value |-> find_translation_pair(call.filename, call.language,
                                                    call.candidates)]
    /\ pc' = "done"
    /\ UNCHANGED <<pairVars, runVars, viewVars, parseVars, call>>

MatchNext == CallFindTranslationPair

SpecMatch == MatchInit /\ [][MatchNext]_vars

\* the candidate at position i has another language than the query
OtherLanguage(i) == call.candidates[i][2] # call.language

\* the candidate at position i has the base name of the query filename
SameBase(i) == call.candidates[i][3] = find_base_name(call.filename)

\* C2: the candidate find_translation_pair returns never has the query's language
C2_NeverSameLanguage ==
    (pc = "done" /\ returned.index # 0) =>
        /\ returned.value = call.candidates[returned.index][1]
        /\ OtherLanguage(returned.index)

\* a candidate of the query's language and base name was passed over
C2_Witness ==
    /\ pc = "done"
    /\ returned.index = 2
    /\ ~OtherLanguage(1)
    /\ SameBase(1)

\* C3 as claimed: the first candidate of another language whose base name
\* equals the query's base name is returned, null when there is none
C3_FirstExactBaseMatch ==
    pc = "done" =>
        LET Hits == { i \in 1..Len(call.candidates) : OtherLanguage(i) /\ SameBase(i) }
        IN  IF Hits = {} THEN returned.index = 0 /\ returned.value = None
            ELSE /\ returned.index \in Hits
                 /\ \A i \in Hits : returned.index <= i
                 /\ returned.value = call.candidates[returned.index][1]

\* C3 amended: the same, for a base name that is not empty; with an empty
\* query base name, or when no candidate qualifies, null is returned
C3_FirstNonEmptyExactBaseMatch ==
    pc = "done" =>
        LET Hits == { i \in 1..Len(call.candidates) :
                        /\ OtherLanguage(i)
                        /\ SameBase(i)
                        /\ call.candidates[i][3] # <<>> }
        IN  IF Hits = {} THEN returned.index = 0 /\ returned.value = None
            ELSE /\ returned.index \in Hits
                 /\ \A i \in Hits : returned.index <= i
                 /\ returned.value = call.candidates[returned.index][1]

\* two candidates qualify and the first of them is returned
C3_Witness ==
    /\ pc = "done"
    /\ returned.index = 1
    /\ Len(call.candidates) = 2
    /\ OtherLanguage(2)
    /\ SameBase(2)
    /\ call.candidates[1][1] # call.candidates[2][1]

(***************************************************************************)
(* models.py: Document, DocumentPair, DocumentSet                          *)
(* A Document is [filename, language, pair_id]; the derived views refer to *)
(* the Document objects by their position in DocumentSet.documents.        *)
(***************************************************************************)
MaxSetDocs == 3

\* characters in code point order, for the comparison of Python strings
CodePoints ==
    <<"\t", "\n", " ", "#", "(", ")", "-", ".",
      "0","1","2","3","4","5","6","7","8","9", ":",
      "A","B","C","D","E","F","G","H","I","J","K","L","M",
      "N","O","P","Q","R","S","T","U","V","W","X","Y","Z",
      "[", "]", "_", Backtick,
      "a","b","c","d","e","f","g","h","i","j","k","l","m",
      "n","o","p","q","r","s","t","u","v","w","x","y","z">>

Ord(c) == CHOOSE i \in 1..Len(CodePoints) : CodePoints[i] = c

\* a < b for Python strings
RECURSIVE StrLess(_, _)
StrLess(a, b) ==
    IF b = <<>> THEN FALSE
    ELSE IF a = <<>> THEN TRUE
    ELSE IF a[1] = b[1] THEN StrLess(Tail(a), Tail(b))
    ELSE Ord(a[1]) < Ord(b[1])

\* sorted(keys)
RECURSIVE SortedStrings(_)
SortedStrings(S) ==
    IF S = {} THEN <<>>
    ELSE LET m == CHOOSE x \in S : \A y \in S : y = x \/ StrLess(x, y)
         IN  <<m>> \o SortedStrings(S \ {m})

\* Document.is_paired
is_paired(doc) == doc.pair_id # None /\ doc.pair_id # Dash

\* doc.language.upper().startswith("EN")
StartsWithEN(language) == LitAt(Upper(language), 1, <<"E","N">>)

\* doc.language.upper() in ("EN", "EN-GB", "EN-US", "EN-WW")
IsSourceLanguage(language) ==
    Upper(language) \in { <<"E","N">>, <<"E","N","-","G","B">>,
                          <<"E","N","-","U","S">>, <<"E","N","-","W","W">> }

\* the dict "pairs" after the first n documents: pair_id -> slots, a slot
\* holding the position of the last document put into it (0 when absent)
RECURSIVE PairsDict(_, _)
PairsDict(docs, n) ==
    IF n = 0 THEN [p \in {} |-> [source |-> 0, target |-> 0]]
    ELSE LET d == PairsDict(docs, n - 1)
             doc == docs[n]
             old == IF doc.pair_id \in DOMAIN d THEN d[doc.pair_id]
                    ELSE [source |-> 0, target |-> 0]
             new == IF IsSourceLanguage(doc.language)
                    THEN [old EXCEPT !.source = n]
                    ELSE [old EXCEPT !.target = n]
         IN  IF ~is_paired(doc) THEN d
             ELSE [p \in DOMAIN d \cup {doc.pair_id} |->
                      IF p = doc.pair_id THEN new ELSE d[p]]

\* DocumentSet.paired_documents
PairedDocuments(docs) ==
    LET d == PairsDict(docs, Len(docs))
        keys == SortedStrings({ p \in DOMAIN d : d[p].source # 0 /\ d[p].target # 0 })
    IN  [k \in 1..Len(keys) |->
            [pair_id |-> keys[k], source |-> d[keys[k]].source,
             target |-> d[keys[k]].target]]

\* the positions in S, ascending, as a list
RECURSIVE Listing(_)
Listing(S) ==
    IF S = {} THEN <<>>
    ELSE LET m == CHOOSE x \in S : \A y \in S : x <= y
         IN  <<m>> \o Listing(S \ {m})

\* DocumentSet.unpaired_documents
UnpairedDocuments(docs) ==
    LET pairs == PairedDocuments(docs)
        paired_filenames ==
            { docs[pairs[k].source].filename : k \in 1..Len(pairs) } \cup
            { docs[pairs[k].target].filename : k \in 1..Len(pairs) }
    IN  Listing({ i \in 1..Len(docs) : docs[i].filename \notin paired_filenames })

\* the documents a request of the extraction route can put into one set:
\* cached filenames (two uploads may carry one name), the language and the
\* pair_id of the request
SetFileNames == { <<"a">>, <<"b">> }

SetLanguages == { <<"E","N">>, <<"e","n","-","A","U">>, <<"D","E">> }

SetPairIds == { None, Dash, <<"2">>, <<"1","0">> }

DocumentLists ==
    UNION { [1..n -> [filename : SetFileNames, language : SetLanguages,
                      pair_id : SetPairIds]] : n \in 0..MaxSetDocs }

ViewInit ==
    /\ df = <<>> /\ base_col = <<>> /\ idx = 0 /\ processed = {} /\ pair_number = 1
    /\ MatchIdle /\ ParseIdle /\ RunIdle
    /\ documents \in DocumentLists
    /\ paired_documents = <<>>
    /\ unpaired_documents = <<>>
    /\ pc = "document_set"

\* pairs = doc_set.paired_documents
GetPairedDocuments ==
    /\ pc = "document_set"
    /\ paired_documents' = PairedDocuments(documents)
    /\ pc' = "paired"
    /\ UNCHANGED <<pairVars, runVars, matchVars, parseVars, documents, unpaired_documents>>

\* unpaired = doc_set.unpaired_documents
GetUnpairedDocuments ==
    /\ pc = "paired"
    /\ unpaired_documents' = UnpairedDocuments(documents)
    /\ pc' = "done"
    /\ UNCHANGED <<pairVars, runVars, matchVars, parseVars, documents, paired_documents>>

ViewNext == GetPairedDocuments \/ GetUnpairedDocuments

SpecViews == ViewInit /\ [][ViewNext]_vars

\* the pair ids that link documents of the set
LinkIds == { documents[i].pair_id : i \in { j \in 1..Len(documents) : is_paired(documents[j]) } }

\* C5: paired_documents holds a pair for the id p exactly when p is carried
\* by a document of an English variant (code starting with "EN") and by one
\* that is not; the source is the English one, the target the other
C5_PairIffEnglishAndOther ==
    pc = "done" =>
        /\ \A p \in LinkIds :
              (\E k \in 1..Len(paired_documents) : paired_documents[k].pair_id = p)
              <=>
              /\ \E i \in 1..Len(documents) :
                    documents[i].pair_id = p /\ StartsWithEN(documents[i].language)
              /\ \E i \in 1..Len(documents) :
                    documents[i].pair_id = p /\ ~StartsWithEN(documents[i].language)
        /\ \A k \in 1..Len(paired_documents) :
              /\ paired_documents[k].pair_id \in LinkIds
              /\ documents[paired_documents[k].source].pair_id = paired_documents[k].pair_id
              /\ documents[paired_documents[k].target].pair_id = paired_documents[k].pair_id
              /\ StartsWithEN(documents[paired_documents[k].source].language)
              /\ ~StartsWithEN(documents[paired_documents[k].target].language)

\* number of times the document at position i appears in the two views
Appearances(i) ==
    Cardinality({ k \in 1..Len(paired_documents) : paired_documents[k].source = i })
    + Cardinality({ k \in 1..Len(paired_documents) : paired_documents[k].target = i })
    + Cardinality({ k \in 1..Len(unpaired_documents) : unpaired_documents[k] = i })

\* C6: every document of the set appears exactly once across
\* paired_documents and unpaired_documents
C6_EveryDocumentInOneView ==
    pc = "done" =>
        /\ \A i \in 1..Len(documents) : Appearances(i) = 1
        /\ Len(documents) = 2 * Len(paired_documents) + Len(unpaired_documents)

(***************************************************************************)
(* extractor.py: response parsing                                          *)
(***************************************************************************)
\* the literals of the patterns
H3ClientRules ==
    <<"#","#","#"," ","C","L","I","E","N","T","_","R","U","L","E","S">>

H2ClientRules ==
    <<"#","#"," ","C","L","I","E","N","T","_","R","U","L","E","S">>

FenceJavascript ==
    <<Backtick,Backtick,Backtick,"j","a","v","a","s","c","r","i","p","t">>

Fence ==
    <<Backtick,Backtick,Backtick>>

H3Guidelines ==
    <<"#","#","#"," ","G","U","I","D","E","L","I","N","E","S">>

H2Guidelines ==
    <<"#","#"," ","G","U","I","D","E","L","I","N","E","S">>

H2Subtype ==
    <<"#","#"," ","S","U","B","T","Y","P","E",":">>

NlH2Subtype ==
    <<"\n","#","#"," ","S","U","B","T","Y","P","E",":">>

NlH2 ==
    <<"\n","#","#">>

NlH3Space ==
    <<"\n","#","#","#"," ">>

\* the least element of a non-empty set of positions
MinPos(S) == CHOOSE x \in S : \A y \in S : x <= y

\* $ without re.MULTILINE: at the end, or before a newline that ends the text
AtEnd(s, q) == q = Len(s) + 1 \/ (q = Len(s) /\ s[q] = "\n")

\* the match of  <head>\s*```javascript\s*(.*?)```  that starts at p:
\* <<start of group 1, position of the closing fence>>, or <<>>
RulesMatchAt(s, p, head) ==
    IF ~LitAtI(s, p, head) THEN <<>>
    ELSE LET a == SkipSpace(s, p + Len(head))
         IN  IF ~LitAtI(s, a, FenceJavascript) THEN <<>>
             ELSE LET b == SkipSpace(s, a + Len(FenceJavascript))
                      F == { f \in b..Len(s) : LitAt(s, f, Fence) }
                  IN  IF F = {} THEN <<>> ELSE <<b, MinPos(F)>>

\* group 1 of re.search(<head>\s*```javascript\s*(.*?)```, s), None without a match
RulesSearch(s, head) ==
    LET P == { p \in { x \in 1..Len(s) : LitAtI(s, x, head) } :
                 RulesMatchAt(s, p, head) # <<>> }
    IN  IF P = {} THEN None
        ELSE LET m == RulesMatchAt(s, MinPos(P), head)
             IN  SubSeq(s, m[1], m[2] - 1)

\* end (first position after it) of the match of  ###? GUIDELINES  at p, 0 without
GuidelinesHeadEnd(s, p) ==
    IF LitAtI(s, p, H3Guidelines) THEN p + Len(H3Guidelines)
    ELSE IF LitAtI(s, p, H2Guidelines) THEN p + Len(H2Guidelines)
    ELSE 0

\* the lookahead stopping at a heading of any level: (?=\n#|$)
SingleStopAnyHeading(s, q) ==
    \/ LitAt(s, q, <<"\n", "#">>)
    \/ AtEnd(s, q)

\* (?=\n##[# ]|$) holds at q
SingleStop(s, q) ==
    \/ LitAt(s, q, NlH2) /\ q + 3 <= Len(s) /\ s[q + 3] \in {"#", " "}
    \/ AtEnd(s, q)

\* group 1 of re.search(r"###? GUIDELINES\s*(.*?)(?=\n##[# ]|$)", s), None without
GuidelinesSearch(s) ==
    LET P == { p \in 1..Len(s) : GuidelinesHeadEnd(s, p) # 0 }
    IN  IF P = {} THEN None
        ELSE LET b == SkipSpace(s, GuidelinesHeadEnd(s, MinPos(P)))
                 q == MinPos({ x \in b..(Len(s) + 1) : SingleStop(s, x) })
             IN  SubSeq(s, b, q - 1)

\* _parse_response: the fallback branch splits on the pattern that has just
\* failed to match, so it leaves guidelines empty
ClientRulesOf(s) ==
    LET m3 == RulesSearch(s, H3ClientRules)
        m2 == RulesSearch(s, H2ClientRules)
    IN  IF m3 # None THEN Strip(m3)
        ELSE IF m2 # None THEN Strip(m2)
        ELSE <<>>

GuidelinesOf(s) ==
    LET m == GuidelinesSearch(s)
    IN  IF m # None THEN Strip(m) ELSE <<>>

parse_response(s) == [client_rules |-> ClientRulesOf(s), guidelines |-> GuidelinesOf(s)]

\* start of group 1 of  ## SUBTYPE:\s*<subtype>\s*  matched at p, 0 without a match
SubtypeHeadEnd(s, p, subtype) ==
    IF ~LitAtI(s, p, H2Subtype) THEN 0
    ELSE LET a == SkipSpace(s, p + Len(H2Subtype))
         IN  IF LitAtI(s, a, subtype) THEN SkipSpace(s, a + Len(subtype)) ELSE 0

\* (?=\n## SUBTYPE:|$) holds at q
BlockStop(s, q) == LitAtI(s, q, NlH2Subtype) \/ AtEnd(s, q)

\* subtype_content: group 1 of the search for the subtype's section, None without
SubtypeContent(s, subtype) ==
    LET P == { p \in 1..Len(s) : SubtypeHeadEnd(s, p, subtype) # 0 }
    IN  IF P = {} THEN None
        ELSE LET b == SubtypeHeadEnd(s, MinPos(P), subtype)
                 q == MinPos({ x \in b..(Len(s) + 1) : BlockStop(s, x) })
             IN  SubSeq(s, b, q - 1)

\* (?=\n### [A-Z]|\n## SUBTYPE:|$) holds at q (re.IGNORECASE)
BlockGuidelinesStop(s, q) ==
    \/ LitAt(s, q, NlH3Space) /\ q + 5 <= Len(s) /\ IsLetter(s[q + 5])
    \/ LitAtI(s, q, NlH2Subtype)
    \/ AtEnd(s, q)

\* group 1 of the GUIDELINES search inside a subtype section, None without
BlockGuidelinesSearch(s) ==
    LET P == { p \in 1..Len(s) : LitAtI(s, p, H3Guidelines) }
    IN  IF P = {} THEN None
        ELSE LET b == SkipSpace(s, MinPos(P) + Len(H3Guidelines))
                 q == MinPos({ x \in b..(Len(s) + 1) : BlockGuidelinesStop(s, x) })
             IN  SubSeq(s, b, q - 1)

EmptyResult == [client_rules |-> <<>>, guidelines |-> <<>>]

\* the ExtractionResult built from a subtype's section
SectionResult(content) ==
    LET r == RulesSearch(content, H3ClientRules)
        g == BlockGuidelinesSearch(content)
    IN  [client_rules |-> IF r # None THEN Strip(r) ELSE <<>>,
         guidelines |-> IF g # None THEN Strip(g) ELSE <<>>]

\* one iteration of the loop of _parse_batch_response
SubtypeResult(s, subtype) ==
    LET subtype_content == SubtypeContent(s, subtype)
    IN  IF subtype_content = None THEN EmptyResult
        ELSE SectionResult(subtype_content)

\* _parse_batch_response: the dict subtype -> ExtractionResult
parse_batch_response(s, names) ==
    [n \in { names[k] : k \in 1..Len(names) } |-> SubtypeResult(s, n)]

(***************************************************************************)
(* Answers of the model: pieces of text in any order                       *)
(***************************************************************************)
MaxSegments == 3

SegSubtypeA ==
    <<"#","#"," ","S","U","B","T","Y","P","E",":"," ","a","\n">>

SegSubtypeAB ==
    <<"#","#"," ","s","u","b","t","y","p","e",":"," ","A","B","\n">>

SegRulesR ==
    <<"#","#","#"," ","C","L","I","E","N","T","_","R","U","L","E","S",
      "\n",Backtick,Backtick,Backtick,"j","a","v","a","s","c","r","i","p",
      "t","\n","r","\n",Backtick,Backtick,Backtick,"\n">>

SegRulesS ==
    <<"#","#"," ","C","L","I","E","N","T","_","R","U","L","E","S","\n",
      Backtick,Backtick,Backtick,"j","a","v","a","s","c","r","i","p","t",
      "\n","s","\n",Backtick,Backtick,Backtick,"\n">>

SegGuidelines3 ==
    <<"#","#","#"," ","G","U","I","D","E","L","I","N","E","S","\n","g",
      "\n">>

SegGuidelines2 ==
    <<"#","#"," ","G","U","I","D","E","L","I","N","E","S","\n","k","\n">>

SegHeading4 ==
    <<"#","#","#","#"," ","h","\n","x","\n">>

SegHeading3 ==
    <<"#","#","#"," ","h","\n","y","\n">>

SegHeading2 ==
    <<"#","#"," ","h","\n","w","\n">>

SegHeading1 ==
    <<"#"," ","h","\n","z","\n">>

Segments ==
    { SegSubtypeA,
      SegSubtypeAB,
      SegRulesR,
      SegRulesS,
      SegGuidelines3,
      SegGuidelines2,
      SegHeading4,
      SegHeading3,
      SegHeading2,
      SegHeading1 }

\* the concatenation of a list of texts
RECURSIVE Concat(_)
Concat(q) == IF q = <<>> THEN <<>> ELSE Head(q) \o Concat(Tail(q))

ResponseTexts == { Concat(q) : q \in UNION { [1..n -> Segments] : n \in 0..MaxSegments } }

SubtypeNames == { <<"a">>, <<"a","b">> }

SubtypeLists == { <<n>> : n \in SubtypeNames } \cup
                { q \in SubtypeNames \X SubtypeNames : q[1] # q[2] }

ParseInit ==
    /\ df = <<>> /\ base_col = <<>> /\ idx = 0 /\ processed = {} /\ pair_number = 1
    /\ MatchIdle /\ ViewIdle /\ RunIdle
    /\ response_text \in ResponseTexts
    /\ subtypes \in SubtypeLists
    /\ written = <<>>
    /\ parsed = <<>>
    /\ results = <<>>
    /\ pc = "response"

\* extract_rules_and_guidelines (one document set):
\* client_rules, guidelines = _parse_response(response_text)
ParseSingle ==
    /\ pc = "response"
    /\ Len(subtypes) = 1
    /\ parsed' = parse_response(response_text)
    /\ pc' = "parsed_single"
    /\ UNCHANGED <<pairVars, runVars, matchVars, viewVars, response_text, subtypes, written, results>>

\* extract_rules_and_guidelines_batch:
\* results = _parse_batch_response(response_text, document_sets)
ParseBatch ==
    /\ pc = "response"
    /\ results' = parse_batch_response(response_text, subtypes)
    /\ pc' = "parsed_batch"
    /\ UNCHANGED <<pairVars, runVars, matchVars, viewVars, response_text, subtypes, written, parsed>>

ParseNext == ParseSingle \/ ParseBatch

SpecParse == ParseInit /\ [][ParseNext]_vars

(***************************************************************************)
(* Properties of _parse_batch_response                                     *)
(***************************************************************************)
\* a "## SUBTYPE:" heading stands at the start of the line at p and names
\* exactly the subtype (any letter case): the position after the name, else 0
OwnHeadingEnd(s, p, subtype) ==
    IF ~(LitAtI(s, p, H2Subtype) /\ (p = 1 \/ s[p - 1] = "\n")) THEN 0
    ELSE LET a == SkipSpace(s, p + Len(H2Subtype))
             e == a + Len(subtype)
         IN  IF LitAtI(s, a, subtype) /\ (e > Len(s) \/ IsSpace(s[e])) THEN e ELSE 0

HasOwnBlock(s, subtype) == \E p \in 1..Len(s) : OwnHeadingEnd(s, p, subtype) # 0

\* the text of the subtype's own block: from its heading to the next
\* "## SUBTYPE:" heading or the end of the text
OwnBlock(s, subtype) ==
    LET p == MinPos({ x \in 1..Len(s) : OwnHeadingEnd(s, x, subtype) # 0 })
        e == OwnHeadingEnd(s, p, subtype)
        q == MinPos({ x \in e..(Len(s) + 1) : x = Len(s) + 1 \/ LitAtI(s, x, NlH2Subtype) })
    IN  SubSeq(s, e, q - 1)

\* C7: parse_batch returns exactly the requested subtypes as keys; a subtype
\* whose "## SUBTYPE: name" block is absent gets empty client_rules and
\* guidelines; an entry is the same as when the subtype is requested alone
C7_BatchKeysAndMissingBlocks ==
    pc = "parsed_batch" =>
        /\ DOMAIN results = { subtypes[k] : k \in 1..Len(subtypes) }
        /\ \A n \in DOMAIN results :
              /\ ~HasOwnBlock(response_text, n) => results[n] = EmptyResult
              /\ results[n] = parse_batch_response(response_text, <<n>>)[n]

\* C8: the entry of a subtype is extracted from the subtype's own block only
\* (heading naming the whole subtype name, up to the next "## SUBTYPE:"
\* heading or the end of the text)
C8_ResultFromOwnBlockOnly ==
    pc = "parsed_batch" =>
        \A n \in DOMAIN results :
            results[n] = IF HasOwnBlock(response_text, n)
                         THEN SectionResult(OwnBlock(response_text, n))
                         ELSE EmptyResult

(***************************************************************************)
(* Properties of _parse_response                                           *)
(***************************************************************************)
\* a heading of at most `level` number signs starts on the line after position x
HeadingUpTo(s, x, level) ==
    /\ x <= Len(s) /\ s[x] = "\n"
    /\ \E m \in 1..level :
          /\ x + m + 1 <= Len(s)
          /\ \A k \in 1..m : s[x + k] = "#"
          /\ s[x + m + 1] = " "

\* C10: the guidelines are everything after the GUIDELINES heading up to the
\* next heading of equal or higher level, or the end of the text; a deeper
\* heading does not end them
C10_GuidelinesUpToNextPeerHeading ==
    (pc = "parsed_single" /\ \E p \in 1..Len(response_text) :
                                 GuidelinesHeadEnd(response_text, p) # 0) =>
        LET s == response_text
            p == MinPos({ x \in 1..Len(s) : GuidelinesHeadEnd(s, x) # 0 })
            e == GuidelinesHeadEnd(s, p)
            level == IF LitAtI(s, p, H3Guidelines) THEN 3 ELSE 2
            q == MinPos({ x \in e..(Len(s) + 1) :
                            x = Len(s) + 1 \/ HeadingUpTo(s, x, level) })
        IN  parsed.guidelines = Strip(SubSeq(s, e, q - 1))

(***************************************************************************)
(* Answers in the response format of the prompt                            *)
(***************************************************************************)
MaxPieces == 2

\* _build_response_format_section: the layout asked of the model
FormatHead ==
    <<"#","#","#"," ","C","L","I","E","N","T","_","R","U","L","E","S",
      "\n","\n",Backtick,Backtick,Backtick,"j","a","v","a","s","c","r",
      "i","p","t","\n">>

FormatMiddle ==
    <<"\n",Backtick,Backtick,Backtick,"\n","\n","#","#","#"," ","G","U",
      "I","D","E","L","I","N","E","S","\n","\n">>

PieceText ==
    <<"r">>

PieceNewline ==
    <<"\n">>

PieceFence ==
    <<Backtick,Backtick,Backtick>>

PieceHeading2 ==
    <<"\n","#","#"," ","h">>

PieceHeading4 ==
    <<"\n","#","#","#","#"," ","h">>

PieceHeading1 ==
    <<"\n","#"," ","h">>

PieceGuidelines ==
    <<"#","#"," ","g","u","i","d","e","l","i","n","e","s">>

\* pieces of the client_rules text and of the guidelines text
RulesPieces == { PieceText, PieceNewline, PieceFence, PieceGuidelines }

GuidelinesPieces ==
    { PieceText, PieceNewline, PieceHeading2, PieceHeading4, PieceHeading1 }

PieceTexts(P) == { Concat(q) : q \in UNION { [1..n -> P] : n \in 0..MaxPieces } }

\* the answer that holds x as client_rules and y as guidelines
FormatResponse(x, y) == FormatHead \o x \o FormatMiddle \o y

RoundTripInit ==
    /\ df = <<>> /\ base_col = <<>> /\ idx = 0 /\ processed = {} /\ pair_number = 1
    /\ MatchIdle /\ ViewIdle /\ RunIdle
    /\ written \in [client_rules : PieceTexts(RulesPieces),
                    guidelines : PieceTexts(GuidelinesPieces)]
    /\ response_text = FormatResponse(written.client_rules, written.guidelines)
    /\ subtypes = << <<"a">> >>
    /\ parsed = <<>>
    /\ results = <<>>
    /\ pc = "response"

RoundTripNext == ParseSingle

SpecRoundTrip == RoundTripInit /\ [][RoundTripNext]_vars

\* the text t occurs in s (re.IGNORECASE)
ContainsI(s, t) == \E i \in 1..Len(s) : LitAtI(s, i, t)

\* a newline of s is directly followed by "## " or "###"
HasHeadingLine(s) ==
    \E i \in 1..Len(s) :
        LitAt(s, i, NlH2) /\ i + 3 <= Len(s) /\ s[i + 3] \in {"#", " "}

MaxPromptTokens == 3

MaxUsage == 3

MaxAnswerSegments == 1

\* count_tokens: int(base_count * 1.2), base_count the tiktoken length
count_tokens(base_count) == (base_count * 12) \div 10

\* a whole answer in the single format and one in the batch format
SegSingleAnswer == SegRulesR \o SegGuidelines3

SegBatchAnswer == SegSubtypeA \o SegRulesR \o SegGuidelines3

AnswerSegments == Segments \cup { SegSingleAnswer, SegBatchAnswer }

AnswerTexts ==
    { Concat(q) : q \in UNION { [1..n -> AnswerSegments] : n \in 0..MaxAnswerSegments } }

\* no exception
NoError == "None"

\* subclasses of anthropic.APIError that client.messages.create raises
APIErrors == { "APIConnectionError", "RateLimitError" }

\* response.usage
Usages == [input_tokens : 0..MaxUsage, output_tokens : 0..MaxUsage]

\* response.content: a list of content blocks, possibly empty
Contents == { <<>> } \cup { <<[type |-> "text", text |-> t]>> : t \in AnswerTexts }

\* what client.messages.create does: it raises or returns a message
ClientOutcomes ==
    { [raises |-> e, content |-> <<>>, usage |-> [input_tokens |-> 0, output_tokens |-> 0]] :
        e \in APIErrors } \cup
    [raises : { NoError }, content : Contents, usage : Usages]

\* the subtype an ExtractionError of the running function carries
BatchName == <<"b","a","t","c","h">>

ErrorSubtype == IF mode = "single" THEN subtypes[1] ELSE BatchName

Raise(exception, subtype, original_error) ==
    [kind |-> "raise", exception |-> exception, subtype |-> subtype,
     original_error |-> original_error]

Return(value) == [kind |-> "return", value |-> value]

ExtractionResult(client_rules, guidelines, input_tokens, output_tokens) ==
    [client_rules |-> client_rules, guidelines |-> guidelines,
     input_tokens |-> input_tokens, output_tokens |-> output_tokens]

DebugClientRules ==
    <<"/","/"," ","D","e","b","u","g"," ","m","o","d","e"," ","-"," ","n",
      "o"," ","A","P","I"," ","c","a","l","l"," ","m","a","d","e">>

DebugGuidelines ==
    <<"#"," ","D","e","b","u","g"," ","m","o","d","e"," ","-"," ","n","o",
      " ","A","P","I"," ","c","a","l","l"," ","m","a","d","e">>

SubtypeSet == { subtypes[k] : k \in 1..Len(subtypes) }

\* placeholders that each carry the whole estimate
DebugValueFullCount ==
    IF mode = "single"
    THEN ExtractionResult(DebugClientRules, DebugGuidelines, prompt_tokens, 0)
    ELSE [n \in SubtypeSet |->
            ExtractionResult(DebugClientRules, DebugGuidelines, prompt_tokens, 0)]

\* the value returned in debug mode
DebugValue ==
    IF mode = "single"
    THEN ExtractionResult(DebugClientRules, DebugGuidelines, prompt_tokens, 0)
    ELSE [n \in SubtypeSet |->
            ExtractionResult(DebugClientRules, DebugGuidelines,
                             prompt_tokens \div Len(subtypes), 0)]

\* a parser that gives up when a section is missing
ParseRaisesWhenEmpty(s) ==
    parse_response(s).client_rules = <<>> \/ parse_response(s).guidelines = <<>>

\* the try block around _parse_response / _parse_batch_response: the regular
\* expression searches accept every text, nothing in the block raises
ParseRaises(s) == FALSE

\* batch results that each carry the whole usage of the call
DistributeUsageWhole(res, usage) ==
    [n \in DOMAIN res |->
        ExtractionResult(res[n].client_rules, res[n].guidelines,
                         usage.input_tokens, usage.output_tokens)]

\* the batch results with the usage of the one call divided among them
DistributeUsage(res, usage) ==
    [n \in DOMAIN res |->
        ExtractionResult(res[n].client_rules, res[n].guidelines,
                         usage.input_tokens \div Len(subtypes),
                         usage.output_tokens \div Len(subtypes))]

\* the value returned after a call and a parse
ParsedValue ==
    IF mode = "single"
    THEN ExtractionResult(parsed.client_rules, parsed.guidelines,
                          response.usage.input_tokens, response.usage.output_tokens)
    ELSE DistributeUsage(results, response.usage)

ExtractInit ==
    /\ PairsIdle /\ MatchIdle /\ ViewIdle /\ StreamIdle /\ SectionIdle /\ CostIdle
    /\ BackendIdle
    /\ response_text = <<>> /\ written = <<>> /\ parsed = <<>> /\ results = <<>>
    /\ debug_mode \in BOOLEAN
    /\ mode \in { "single", "batch" }
    /\ subtypes \in IF mode = "single" THEN { <<n>> : n \in SubtypeNames }
                    ELSE SubtypeLists \cup { <<>> }
    /\ prompt_tokens = 0 /\ response = <<>> /\ llm_calls = 0
    /\ debug_files = {} /\ outcome = <<>> /\ trace = <<>>
    /\ pc = "invoked"

\* extract_rules_and_guidelines_batch with no document sets
ReturnEmptyBatch ==
    /\ pc = "invoked" /\ mode = "batch" /\ subtypes = <<>>
    /\ outcome' = Return(<<>>)
    /\ pc' = "returned"
    /\ UNCHANGED <<outsideExtract, parseVars, debug_mode, mode,
                   prompt_tokens, response, llm_calls, debug_files, trace>>

\* prompt = build_extraction_prompt(...)
BuildPrompt ==
    /\ pc = "invoked" /\ ~(mode = "batch" /\ subtypes = <<>>)
    /\ \E base_count \in 1..MaxPromptTokens :
          prompt_tokens' = count_tokens(base_count)
    /\ trace' = <<"BUILT">>
    /\ pc' = "built"
    /\ UNCHANGED <<outsideExtract, parseVars, debug_mode, mode,
                   response, llm_calls, debug_files, outcome>>

\* debug mode: the prompt, the metadata and the analysis are written
SaveDebugPrompt ==
    /\ pc = "built" /\ debug_mode
    /\ debug_files' = { "prompt", "meta", "analysis" }
    /\ trace' = Append(trace, "DEBUG_WRITTEN")
    /\ pc' = "debug_written"
    /\ UNCHANGED <<outsideExtract, parseVars, debug_mode, mode,
                   prompt_tokens, response, llm_calls, outcome>>

\* debug mode: the placeholder result(s) are returned
ReturnPlaceholder ==
    /\ pc = "debug_written"
    /\ outcome' = Return(DebugValue)
    /\ trace' = Append(trace, "RESULT")
    /\ pc' = "returned"
    /\ UNCHANGED <<outsideExtract, parseVars, debug_mode, mode,
                   prompt_tokens, response, llm_calls, debug_files>>

\* a call that is made again after an error
CallClientWithRetry ==
    /\ pc = "built" /\ ~debug_mode
    /\ llm_calls' = llm_calls + 1
    /\ \E r \in ClientOutcomes :
          /\ response' = r
          /\ IF r.raises # NoError /\ llm_calls = 0
             THEN UNCHANGED <<outcome, trace, pc>>
             ELSE IF r.raises # NoError
             THEN /\ outcome' = Raise("ExtractionError", ErrorSubtype, r.raises)
                  /\ trace' = trace \o <<"CALLED", "ERROR">>
                  /\ pc' = "raised"
             ELSE /\ outcome' = outcome
                  /\ trace' = Append(trace, "CALLED")
                  /\ pc' = "called"
    /\ UNCHANGED <<outsideExtract, parseVars, debug_mode, mode,
                   prompt_tokens, debug_files>>

\* response = client.messages.create(...), anthropic.APIError is wrapped
CallClient ==
    /\ pc = "built" /\ ~debug_mode
    /\ llm_calls' = llm_calls + 1
    /\ \E r \in ClientOutcomes :
          /\ response' = r
          /\ IF r.raises # NoError
             THEN /\ outcome' = Raise("ExtractionError", ErrorSubtype, r.raises)
                  /\ trace' = trace \o <<"CALLED", "ERROR">>
                  /\ pc' = "raised"
             ELSE /\ outcome' = outcome
                  /\ trace' = Append(trace, "CALLED")
                  /\ pc' = "called"
    /\ UNCHANGED <<outsideExtract, parseVars, debug_mode, mode,
                   prompt_tokens, debug_files>>

\* response_text = response.content[0].text, outside of any try block
ReadMessage ==
    /\ pc = "called"
    /\ IF response.content = <<>>
       THEN /\ outcome' = Raise("IndexError", None, NoError)
            /\ trace' = Append(trace, "ERROR")
            /\ pc' = "raised"
            /\ UNCHANGED response_text
       ELSE /\ response_text' = response.content[1].text
            /\ pc' = "read"
            /\ UNCHANGED <<outcome, trace>>
    /\ UNCHANGED <<outsideExtract, subtypes, written, parsed, results,
                   debug_mode, mode, prompt_tokens, response, llm_calls, debug_files>>

\* the try block around the parser
ParseMessage ==
    /\ pc = "read"
    /\ IF ParseRaises(response_text)
       THEN /\ outcome' = Raise("ResponseParsingError", ErrorSubtype, "Exception")
            /\ trace' = Append(trace, "ERROR")
            /\ pc' = "raised"
            /\ UNCHANGED <<parsed, results>>
       ELSE /\ IF mode = "single"
               THEN parsed' = parse_response(response_text) /\ UNCHANGED results
               ELSE results' = parse_batch_response(response_text, subtypes)
                    /\ UNCHANGED parsed
            /\ trace' = Append(trace, "PARSED")
            /\ pc' = "parsed"
            /\ UNCHANGED outcome
    /\ UNCHANGED <<outsideExtract, response_text, subtypes, written,
                   debug_mode, mode, prompt_tokens, response, llm_calls, debug_files>>

\* return ExtractionResult(...) with the usage of the call
ReturnResult ==
    /\ pc = "parsed"
    /\ outcome' = Return(ParsedValue)
    /\ trace' = Append(trace, "RESULT")
    /\ pc' = "returned"
    /\ UNCHANGED <<outsideExtract, parseVars, debug_mode, mode,
                   prompt_tokens, response, llm_calls, debug_files>>

ExtractNext ==
    \/ ReturnEmptyBatch
    \/ BuildPrompt
    \/ SaveDebugPrompt
    \/ ReturnPlaceholder
    \/ CallClient
    \/ ReadMessage
    \/ ParseMessage
    \/ ReturnResult

SpecExtract == ExtractInit /\ [][ExtractNext]_vars

(***************************************************************************)
(* Claims on the extraction functions                                      *)
(***************************************************************************)
\* the text of the answer was read from the message
TextRead == response # <<>> /\ response.raises = NoError /\ response.content # <<>>

\* C11: single-mode parsing fails softly: once the text of the answer is
\* read nothing raises, a missing CLIENT_RULES or GUIDELINES section gives the
\* empty string, and extract_rules_and_guidelines returns an ExtractionResult
\* made of the parsed parts and the usage counts of the call
C11_SingleParseSoftFailure ==
    (mode = "single" /\ ~debug_mode) =>
        /\ pc = "raised" => ~TextRead
        /\ pc \in { "parsed", "returned" } =>
              /\ ~ContainsI(response_text, H2ClientRules) => parsed.client_rules = <<>>
              /\ ~ContainsI(response_text, H2Guidelines) => parsed.guidelines = <<>>
        /\ pc = "returned" =>
              outcome = Return(ExtractionResult(parsed.client_rules, parsed.guidelines,
                                                response.usage.input_tokens,
                                                response.usage.output_tokens))

\* an answer with neither section was parsed and a result with two empty
\* texts and the usage (2, 1) of the call was returned
C11_Witness ==
    /\ mode = "single" /\ ~debug_mode /\ pc = "returned"
    /\ response_text = SegHeading1
    /\ outcome.kind = "return"
    /\ outcome.value = ExtractionResult(<<>>, <<>>, 2, 1)

\* the placeholder results of a run in debug mode
Placeholders ==
    IF mode = "single" THEN { outcome.value }
    ELSE { outcome.value[n] : n \in DOMAIN outcome.value }

\* C12 as claimed: in debug mode the client is never called, the debug
\* files are written and every placeholder result (one per subtype in batch
\* mode) has output_tokens = 0 and input_tokens = the estimated token count
\* of the prompt
C12_DebugPlaceholdersFullCount ==
    debug_mode =>
        /\ llm_calls = 0
        /\ pc = "returned" =>
              /\ debug_files # {}
              /\ outcome.kind = "return"
              /\ mode = "batch" => DOMAIN outcome.value = SubtypeSet
              /\ \A r \in Placeholders :
                    r.output_tokens = 0 /\ r.input_tokens = prompt_tokens

\* C12 amended: in debug mode the client is never called; a run over at
\* least one document set writes the debug files and returns placeholders
\* with output_tokens = 0 whose input_tokens is the estimated token count of
\* the prompt in single mode and that count divided by the number of
\* subtypes (remainder dropped) in batch mode; a batch over no document set
\* returns an empty mapping and writes nothing
C12_DebugPlaceholdersSharedCount ==
    debug_mode =>
        /\ llm_calls = 0
        /\ (pc = "returned" /\ subtypes = <<>>) =>
              debug_files = {} /\ outcome = Return(<<>>)
        /\ (pc = "returned" /\ subtypes # <<>>) =>
              /\ debug_files # {}
              /\ outcome.kind = "return"
              /\ mode = "batch" => DOMAIN outcome.value = SubtypeSet
              /\ \A r \in Placeholders :
                    /\ r.output_tokens = 0
                    /\ r.input_tokens =
                          IF mode = "single" THEN prompt_tokens
                          ELSE prompt_tokens \div Len(subtypes)

\* a batch of two subtypes ran in debug mode on a prompt estimated at 3
\* tokens and returned two placeholders of 1 input token each
C12_Witness ==
    /\ debug_mode /\ mode = "batch" /\ pc = "returned"
    /\ Len(subtypes) = 2 /\ prompt_tokens = 3
    /\ llm_calls = 0 /\ debug_files # {}
    /\ \A n \in SubtypeSet : outcome.value[n].input_tokens = 1

\* C13: a failure while the answer is obtained (the client call or the
\* reading of the returned message) reaches the caller as an ExtractionError
\* that carries the subtype (single mode) or "batch" (batch mode) and the
\* original cause
C13_FailuresAreExtractionErrors ==
    (pc = "raised" /\ trace # <<>> /\ trace[Len(trace)] = "ERROR"
                   /\ "PARSED" \notin { trace[k] : k \in 1..Len(trace) }) =>
        /\ outcome.kind = "raise"
        /\ outcome.exception = "ExtractionError"
        /\ outcome.subtype = ErrorSubtype
        /\ outcome.original_error # NoError

\* the stages a single extraction may go through, as whole paths
SinglePaths ==
    { <<"BUILT", "DEBUG_WRITTEN", "RESULT">>,
      <<"BUILT", "CALLED", "PARSED", "RESULT">>,
      <<"BUILT", "CALLED", "ERROR">> }

IsPrefix(p, q) == Len(p) <= Len(q) /\ SubSeq(q, 1, Len(p)) = p

Stages == { trace[k] : k \in 1..Len(trace) }

\* the stages gone through fit the position of the function
StageInvariant ==
    mode = "single" =>
        /\ \E p \in SinglePaths : IsPrefix(trace, p)
        /\ llm_calls <= 1
        /\ llm_calls = 1 => (Len(trace) >= 2 /\ trace[1] = "BUILT" /\ trace[2] = "CALLED")
        /\ "PARSED" \in Stages =>
              (llm_calls = 1 /\ response.raises = NoError /\ ~debug_mode)
        /\ pc = "returned" <=> (trace \in SinglePaths /\ trace[Len(trace)] = "RESULT")
        /\ pc = "raised" <=> (trace \in SinglePaths /\ trace[Len(trace)] = "ERROR")
        /\ (pc = "returned") = (outcome # <<>> /\ outcome.kind = "return")
        /\ (pc = "raised") = (outcome # <<>> /\ outcome.kind = "raise")

\* C14: a single extraction follows BUILT -> (DEBUG_WRITTEN | CALLED) ->
\* PARSED -> RESULT and visits no stage twice: the client is called at most
\* once and only after the prompt is built, the parser runs only after a
\* call that returned a message, a result is returned only at the end of
\* such a path, a failed call or a failed reading of the answer ends the run
\* with an error, and once the function has returned or raised it takes no
\* further step (nothing is retried)
C14_SingleExtractionStages ==
    /\ []StageInvariant
    /\ [][ (mode = "single" /\ pc \in { "returned", "raised" }) => UNCHANGED vars ]_vars

\* a single extraction whose call failed ended with an error after one call
C14_Witness ==
    /\ mode = "single" /\ pc = "raised"
    /\ trace = <<"BUILT", "CALLED", "ERROR">>
    /\ llm_calls = 1 /\ response.raises = "RateLimitError"

(***************************************************************************)
(* backend/src/api/routes/extraction.py: extract_with_streaming            *)
(***************************************************************************)
MaxStreamSets == 3

\* the file references of one requested document set: none, one whose file
\* is in the cache, one whose file is not
FileRefLists == { <<>>, <<"cached">>, <<"missing">> }

DocumentSetRequests == [subtype : SubtypeNames, files : FileRefLists]

ExtractionRequests ==
    [client_name : { "", "acme" },
     document_sets : UNION { [1..n -> DocumentSetRequests] : n \in 0..MaxStreamSets }]

\* how one call of extract_rules_and_guidelines ends
ExtractionOutcomes ==
    { Return(ExtractionResult(<<"r">>, <<"g">>, 2, 1)),
      Raise("ExtractionError", None, "RateLimitError"),
      Raise("IndexError", None, NoError) }

\* the loop that builds the DocumentSets: sets without files are skipped,
\* a file that is not in the cache ends the stream
RECURSIVE BuildDocumentSets(_)
BuildDocumentSets(reqs) ==
    IF reqs = <<>> THEN [missing |-> FALSE, sets |-> <<>>]
    ELSE LET ds_req == Head(reqs)
             rest   == BuildDocumentSets(Tail(reqs))
         IN  IF ds_req.files = <<>> THEN rest
             ELSE IF \E k \in 1..Len(ds_req.files) : ds_req.files[k] = "missing"
             THEN [missing |-> TRUE, sets |-> <<>>]
             ELSE IF rest.missing THEN rest
             ELSE [missing |-> FALSE, sets |-> <<ds_req.subtype>> \o rest.sets]

ErrorEvent(message) == [type |-> "error", message |-> message]

StartedEvent(names) == [type |-> "started", subtypes |-> names]

ProgressEvent(subtype, n, total) ==
    [type |-> "progress", subtype |-> subtype, current |-> n, total |-> total]

SubtypeCompleteEvent(subtype, n, total) ==
    [type |-> "subtype_complete", subtype |-> subtype, current |-> n, total |-> total]

SubtypeErrorEvent(subtype, message) ==
    [type |-> "subtype_error", subtype |-> subtype, message |-> message]

RECURSIVE SumTokens(_, _, _)
SumTokens(res, names, field) ==
    IF names = {} THEN 0
    ELSE LET n == CHOOSE n \in names : TRUE
         IN  res[n][field] + SumTokens(res, names \ {n}, field)

CompleteEvent(res) ==
    [type |-> "complete", results |-> res,
     total_input_tokens |-> SumTokens(res, DOMAIN res, "input_tokens"),
     total_output_tokens |-> SumTokens(res, DOMAIN res, "output_tokens")]

\* results[doc_set.subtype] = {...}
SetResult(res, subtype, value) ==
    [n \in DOMAIN res \cup { subtype } |-> IF n = subtype THEN value ELSE res[n]]

StreamInit ==
    /\ PairsIdle /\ MatchIdle /\ ViewIdle /\ ParseIdle /\ ExtractIdle /\ SectionIdle /\ CostIdle
    /\ BackendIdle
    /\ request \in ExtractionRequests
    /\ document_sets = <<>> /\ current = 0 /\ stream_results = <<>>
    /\ extractions = <<>> /\ events = <<>>
    /\ pc = "requested"

\* the request is validated and the DocumentSets are built
StreamStart ==
    /\ pc = "requested"
    /\ LET built == BuildDocumentSets(request.document_sets)
       IN  IF request.client_name = ""
           THEN /\ events' = <<ErrorEvent("Client name is required")>>
                /\ pc' = "done"
                /\ UNCHANGED document_sets
           ELSE IF request.document_sets = <<>>
           THEN /\ events' = <<ErrorEvent("No document sets provided")>>
                /\ pc' = "done"
                /\ UNCHANGED document_sets
           ELSE IF built.missing
           THEN /\ events' = <<ErrorEvent("File not found in cache")>>
                /\ pc' = "done"
                /\ UNCHANGED document_sets
           ELSE IF built.sets = <<>>
           THEN /\ events' = <<ErrorEvent("No valid document sets to process")>>
                /\ pc' = "done"
                /\ UNCHANGED document_sets
           ELSE /\ events' = <<StartedEvent(built.sets)>>
                /\ document_sets' = built.sets
                /\ pc' = "streaming"
    /\ UNCHANGED <<outsideStream, request, current, stream_results, extractions>>

\* get_settings(), the assignments to the settings object or file_cache.get
\* raise: the except clause around the whole generator yields the error
StreamSetupFails ==
    /\ pc = "requested"
    /\ request.client_name # "" /\ request.document_sets # <<>>
    /\ events' = <<ErrorEvent("Extraction failed")>>
    /\ pc' = "done"
    /\ UNCHANGED <<outsideStream, request, document_sets, current, stream_results,
                   extractions>>

\* an iteration that yields the events and leaves the result out of results
StreamSubtypeCompleteUnrecorded ==
    /\ pc = "streaming" /\ current < Len(document_sets)
    /\ LET subtype == document_sets[current + 1]
           total   == Len(document_sets)
       IN  \E o \in ExtractionOutcomes :
              /\ o.kind = "return"
              /\ extractions' = Append(extractions, [subtype |-> subtype, outcome |-> o])
              /\ events' = events \o <<ProgressEvent(subtype, current, total),
                                       SubtypeCompleteEvent(subtype, current + 1, total)>>
    /\ current' = current + 1
    /\ UNCHANGED <<outsideStream, request, document_sets, stream_results, pc>>

\* one iteration of the loop whose extraction returns a result
StreamSubtypeComplete ==
    /\ pc = "streaming" /\ current < Len(document_sets)
    /\ LET subtype == document_sets[current + 1]
           total   == Len(document_sets)
       IN  \E o \in ExtractionOutcomes :
              /\ o.kind = "return"
              /\ extractions' = Append(extractions, [subtype |-> subtype, outcome |-> o])
              /\ stream_results' = SetResult(stream_results, subtype, o.value)
              /\ events' = events \o <<ProgressEvent(subtype, current, total),
                                       SubtypeCompleteEvent(subtype, current + 1, total)>>
    /\ current' = current + 1
    /\ UNCHANGED <<outsideStream, request, document_sets, pc>>

\* an iteration whose failure ends the stream
StreamSubtypeErrorFatal ==
    /\ pc = "streaming" /\ current < Len(document_sets)
    /\ LET subtype == document_sets[current + 1]
           total   == Len(document_sets)
       IN  \E o \in ExtractionOutcomes :
              /\ o.kind = "raise"
              /\ extractions' = Append(extractions, [subtype |-> subtype, outcome |-> o])
              /\ events' = events \o <<ProgressEvent(subtype, current, total),
                                       SubtypeErrorEvent(subtype, o.exception)>>
    /\ current' = current + 1
    /\ pc' = "done"
    /\ UNCHANGED <<outsideStream, request, document_sets, stream_results>>

\* one iteration of the loop whose extraction raises
StreamSubtypeError ==
    /\ pc = "streaming" /\ current < Len(document_sets)
    /\ LET subtype == document_sets[current + 1]
           total   == Len(document_sets)
       IN  \E o \in ExtractionOutcomes :
              /\ o.kind = "raise"
              /\ extractions' = Append(extractions, [subtype |-> subtype, outcome |-> o])
              /\ events' = events \o <<ProgressEvent(subtype, current, total),
                                       SubtypeErrorEvent(subtype, o.exception)>>
    /\ current' = current + 1
    /\ UNCHANGED <<outsideStream, request, document_sets, stream_results, pc>>

\* a generator that ends after the loop without a last event
StreamFinishSilently ==
    /\ pc = "streaming" /\ current = Len(document_sets)
    /\ pc' = "done"
    /\ UNCHANGED <<outsideStream, request, document_sets, current, stream_results,
                   extractions, events>>

\* after the loop: the totals and the complete event, or the fatal error
StreamFinish ==
    /\ pc = "streaming" /\ current = Len(document_sets)
    /\ events' = Append(events,
                        IF DOMAIN stream_results = {}
                        THEN ErrorEvent("All extractions failed")
                        ELSE CompleteEvent(stream_results))
    /\ pc' = "done"
    /\ UNCHANGED <<outsideStream, request, document_sets, current, stream_results,
                   extractions>>

StreamNext ==
    \/ StreamStart
    \/ StreamSetupFails
    \/ StreamSubtypeComplete
    \/ StreamSubtypeError
    \/ StreamFinish

SpecStream == StreamInit /\ [][StreamNext]_vars

\* the subtypes of the requested document sets that hold files, in order
RECURSIVE RequestedSubtypes(_)
RequestedSubtypes(reqs) ==
    IF reqs = <<>> THEN <<>>
    ELSE (IF Head(reqs).files = <<>> THEN <<>> ELSE <<Head(reqs).subtype>>)
         \o RequestedSubtypes(Tail(reqs))

Started == events # <<>> /\ events[1].type = "started"

\* C15: in the streaming route a failed extraction of one subtype yields a
\* subtype_error event for that subtype and does not end the run: the
\* subtypes are attempted one by one in the order of the request, whatever
\* the earlier ones did, and the stream ends only after the last of them
C15_SubtypeErrorIsNotFatal ==
    Started =>
        /\ document_sets = RequestedSubtypes(request.document_sets)
        /\ Len(extractions) = current /\ Len(events) >= 1 + 2 * current
        /\ \A k \in 1..current :
              /\ extractions[k].subtype = document_sets[k]
              /\ events[2 * k].type = "progress"
              /\ events[2 * k].subtype = document_sets[k]
              /\ extractions[k].outcome.kind = "raise" =>
                    /\ events[2 * k + 1].type = "subtype_error"
                    /\ events[2 * k + 1].subtype = document_sets[k]
        /\ pc = "done" => current = Len(document_sets)

\* the first of three subtypes failed, the second failed too and the third
\* was still extracted, after which the stream completed
C15_Witness ==
    /\ pc = "done" /\ Started /\ Len(document_sets) = 3
    /\ extractions[1].outcome.kind = "raise"
    /\ extractions[2].outcome.kind = "raise"
    /\ extractions[3].outcome.kind = "return"
    /\ events[3].type = "subtype_error"
    /\ events[6].type = "progress"
    /\ events[Len(events)].type = "complete"

\* C16: a batch extraction outside debug mode over N subtypes whose one
\* call reports the usage (I, O) returns one result per subtype, missing
\* blocks included, each with input_tokens = I div N and output_tokens =
\* O div N; the sums over the subtypes are at most I and O and fall short
\* of them by less than N
C16_BatchUsageDividedEvenly ==
    (mode = "batch" /\ ~debug_mode /\ pc = "returned" /\ subtypes # <<>>) =>
        LET N == Len(subtypes)
            I == response.usage.input_tokens
            O == response.usage.output_tokens
            value == outcome.value
        IN  /\ outcome.kind = "return"
            /\ DOMAIN value = SubtypeSet
            /\ \A n \in SubtypeSet :
                  /\ value[n].input_tokens = I \div N
                  /\ value[n].output_tokens = O \div N
                  /\ value[n].client_rules = results[n].client_rules
                  /\ value[n].guidelines = results[n].guidelines
            /\ SumTokens(value, SubtypeSet, "input_tokens") <= I
            /\ SumTokens(value, SubtypeSet, "input_tokens") > I - N
            /\ SumTokens(value, SubtypeSet, "output_tokens") <= O
            /\ SumTokens(value, SubtypeSet, "output_tokens") > O - N

\* a batch of two subtypes whose answer holds the block of the first only
\* and whose call used (3, 1) tokens returned (1, 0) tokens for both
C16_Witness ==
    /\ mode = "batch" /\ ~debug_mode /\ pc = "returned"
    /\ subtypes = << <<"a","b">>, <<"a">> >>
    /\ response_text = SegHeading1
    /\ response.usage = [input_tokens |-> 3, output_tokens |-> 1]
    /\ \A n \in SubtypeSet :
          outcome.value[n] = ExtractionResult(<<>>, <<>>, 1, 0)

(***************************************************************************)
(* find_pairs on sets large enough to hold two pairs                       *)
(***************************************************************************)
MaxPairDocs == 4

\* filenames of two groups of translations
GroupFileNames ==
    { <<"c","_","E","N",".","t">>, <<"c","_","D","E",".","t">>,
      <<"g","_","E","N",".","t">>, <<"g","_","D","E",".","t">>,
      <<"c","-","F","R">> }

GroupLanguages == { <<"E","N">>, <<"D","E">>, UNKNOWN }

GroupsInit ==
    /\ MatchIdle /\ ViewIdle /\ ParseIdle /\ RunIdle
    /\ \E n \in 0..MaxPairDocs :
          \E fs \in [1..n -> GroupFileNames], ls \in [1..n -> GroupLanguages] :
              /\ \A i, j \in 1..n : i # j => fs[i] # fs[j]
              /\ df = DataFrame(fs, ls)
    /\ base_col = <<>>
    /\ idx = 0
    /\ processed = {}
    /\ pair_number = 1
    /\ pc = "find_pairs"

SpecPairGroups == GroupsInit /\ [][PairsNext]_vars

\* the pair ids in use and the rows that carry one
PairIdsInUse == { df[r].Pair : r \in 1..Len(df) } \ { Dash }

RowsOfPair(p) == { r \in 1..Len(df) : df[r].Pair = p }

FirstRowOfPair(p) == CHOOSE r \in RowsOfPair(p) : \A q \in RowsOfPair(p) : r <= q

\* C17: after find_pairs has formed k pairs the ids in use are exactly
\* "1".."k", each on the two documents of one pair, numbered in the order
\* in which the pairs are met while the documents are iterated in set
\* order; every other document carries "-"
C17_SequentialPairIds ==
    pc = "done" =>
        LET k == Cardinality(PairIdsInUse)
        IN  /\ PairIdsInUse = { Str(n) : n \in 1..k }
            /\ k = pair_number - 1
            /\ \A n \in 1..k : Cardinality(RowsOfPair(Str(n))) = 2
            /\ \A n, m \in 1..k :
                  n < m => FirstRowOfPair(Str(n)) < FirstRowOfPair(Str(m))
            /\ \A r \in 1..Len(df) :
                  df[r].Pair \notin PairIdsInUse => df[r].Pair = Dash

\* four documents gave the pairs "1" and "2", the second document of pair
\* "1" standing after the first document of pair "2"
C17_Witness ==
    /\ pc = "done" /\ Len(df) = 4
    /\ df[1].Pair = <<"1">> /\ df[2].Pair = <<"2">>
    /\ df[3].Pair = <<"2">> /\ df[4].Pair = <<"1">>

(***************************************************************************)
(* DocumentSet views of documents numbered by find_pairs                   *)
(***************************************************************************)
MaxPairNumber == 11

MaxSetPairs == 2

\* the two documents of the pair that find_pairs numbered n
NumberedSource(n) ==
    [filename |-> <<"s">> \o Str(n), language |-> <<"E","N">>, pair_id |-> Str(n)]

NumberedTarget(n) ==
    [filename |-> <<"t">> \o Str(n), language |-> <<"D","E">>, pair_id |-> Str(n)]

NumberedDocuments(S) ==
    { NumberedSource(n) : n \in S } \cup { NumberedTarget(n) : n \in S }

\* the documents of some of the numbered pairs, in any order
NumberedInit ==
    /\ PairsIdle /\ MatchIdle /\ ParseIdle /\ RunIdle
    /\ \E S \in SUBSET (1..MaxPairNumber) :
          /\ Cardinality(S) <= MaxSetPairs
          /\ documents \in [1..(2 * Cardinality(S)) -> NumberedDocuments(S)]
          /\ \A i, j \in 1..Len(documents) : i # j => documents[i] # documents[j]
    /\ paired_documents = <<>>
    /\ unpaired_documents = <<>>
    /\ pc = "document_set"

SpecNumberedViews == NumberedInit /\ [][ViewNext]_vars

\* the number find_pairs wrote as the pair id p
NumberOfId(p) == CHOOSE n \in 1..MaxPairNumber : Str(n) = p

\* C18: paired_documents lists the pairs by ascending pair id, which for
\* the ids "1", "2", ..., "10", ... of find_pairs is the order in which the
\* pairs were numbered, whatever the order of the documents
C18_PairsInNumberingOrder ==
    pc \in { "paired", "done" } =>
        \A k, l \in 1..Len(paired_documents) :
            k < l => NumberOfId(paired_documents[k].pair_id)
                        < NumberOfId(paired_documents[l].pair_id)

(***************************************************************************)
(* extractor.py: _build_documents_section                                  *)
(***************************************************************************)
MaxSectionDocs == 3

SectionLanguages == { <<"E","N">>, <<"D","E">> }

SectionPairIds == { Dash, <<"2">> }

\* the documents of one set: the k-th file is named "f<k>"
SectionDocuments ==
    UNION { { [k \in 1..n |-> [filename |-> <<"f">> \o Str(k), language |-> ls[k],
                               pair_id |-> ps[k]]] :
                ls \in [1..n -> SectionLanguages], ps \in [1..n -> SectionPairIds] } :
            n \in 0..MaxSectionDocs }

\* one part of the section: what it shows, of which set, of which document
Item(item, set, doc, label) == [item |-> item, set |-> set, doc |-> doc, label |-> label]

\* _format_pair: the PAIR heading, the SOURCE document, the TARGET document
FormatPair(docs, set, pair) ==
    << Item("PAIR", set, 0, pair.pair_id),
       Item("SOURCE", set, pair.source, docs[pair.source].language),
       Item("TARGET", set, pair.target, docs[pair.target].language) >>

RECURSIVE FormatPairs(_, _, _)
FormatPairs(docs, set, pairs) ==
    IF pairs = <<>> THEN <<>>
    ELSE FormatPair(docs, set, Head(pairs)) \o FormatPairs(docs, set, Tail(pairs))

\* the label of an unpaired document
UnpairedLabel(doc) ==
    IF doc.language # <<>> THEN doc.language ELSE UNKNOWN

\* the UNPAIRED DOCUMENTS heading and the unpaired documents
FormatUnpaired(docs, set, unpaired) ==
    IF unpaired = <<>> THEN <<>>
    ELSE <<Item("UNPAIRED DOCUMENTS", set, 0, <<>>)>> \o
         [k \in 1..Len(unpaired) |->
             Item("DOCUMENT", set, unpaired[k], UnpairedLabel(docs[unpaired[k]]))]

\* the block of one subtype with the unpaired documents put first
FormatSetUnpairedFirst(sets, set) ==
    LET docs == sets[set].documents
    IN  <<Item("SUBTYPE", set, 0, sets[set].subtype)>>
        \o FormatUnpaired(docs, set, UnpairedDocuments(docs))
        \o FormatPairs(docs, set, PairedDocuments(docs))

\* the block of one subtype: heading, pairs, unpaired documents
FormatSet(sets, set) ==
    LET docs == sets[set].documents
    IN  <<Item("SUBTYPE", set, 0, sets[set].subtype)>>
        \o FormatPairs(docs, set, PairedDocuments(docs))
        \o FormatUnpaired(docs, set, UnpairedDocuments(docs))

RECURSIVE FormatSets(_, _)
FormatSets(sets, from) ==
    IF from > Len(sets) THEN <<>>
    ELSE FormatSet(sets, from) \o FormatSets(sets, from + 1)

\* _build_documents_section: the header and the blocks of the subtypes
build_documents_section(sets) ==
    <<Item("EXTRACTION TASK", 0, 0, [k \in 1..Len(sets) |-> sets[k].subtype])>>
    \o FormatSets(sets, 1)

SectionInit ==
    /\ PairsIdle /\ MatchIdle /\ ViewIdle /\ ParseIdle /\ ExtractIdle /\ StreamIdle /\ CostIdle
    /\ BackendIdle
    /\ \E names \in SubtypeLists :
          \E ds \in [1..Len(names) -> SectionDocuments] :
              section_sets = [k \in 1..Len(names) |->
                                 [subtype |-> names[k], documents |-> ds[k]]]
    /\ sections = <<>>
    /\ pc = "document_sets"

BuildDocumentsSection ==
    /\ pc = "document_sets"
    /\ sections' = build_documents_section(section_sets)
    /\ pc' = "section"
    /\ UNCHANGED <<outsideSection, section_sets>>

SectionNext == BuildDocumentsSection

SpecSection == SectionInit /\ [][SectionNext]_vars

\* the places of the section that show a document of the set
PlacesOf(set, items) ==
    { i \in 1..Len(sections) : sections[i].set = set /\ sections[i].item \in items }

\* C19: in the documents section the blocks of the subtypes stand in the
\* order of document_sets; within a block every document of a pair (of the
\* paired_documents view) is shown before any unpaired document, and every
\* pair is shown as its SOURCE document directly followed by its TARGET
\* document
C19_PairsBeforeUnpaired ==
    pc = "section" =>
        /\ \A i, j \in 2..Len(sections) : i < j => sections[i].set <= sections[j].set
        /\ \A set \in 1..Len(section_sets) :
              LET docs == section_sets[set].documents
                  pairs == PairedDocuments(docs)
                  head == PlacesOf(set, { "SUBTYPE" })
              IN  /\ Cardinality(head) = 1
                  /\ \A i \in head :
                        /\ sections[i].label = section_sets[set].subtype
                        /\ \A j \in PlacesOf(set, { "PAIR", "SOURCE", "TARGET",
                                                    "UNPAIRED DOCUMENTS", "DOCUMENT" }) : i < j
                  /\ \A i \in PlacesOf(set, { "SOURCE", "TARGET" }) :
                        \A j \in PlacesOf(set, { "DOCUMENT" }) : i < j
                  /\ Cardinality(PlacesOf(set, { "SOURCE" })) = Len(pairs)
                  /\ Cardinality(PlacesOf(set, { "TARGET" })) = Len(pairs)
                  /\ \A i \in PlacesOf(set, { "SOURCE" }) :
                        /\ i < Len(sections)
                        /\ sections[i + 1].item = "TARGET" /\ sections[i + 1].set = set
                        /\ \E k \in 1..Len(pairs) :
                              /\ pairs[k].source = sections[i].doc
                              /\ pairs[k].target = sections[i + 1].doc
                  /\ { sections[i].doc : i \in PlacesOf(set, { "DOCUMENT" }) }
                        = { UnpairedDocuments(docs)[k] :
                              k \in 1..Len(UnpairedDocuments(docs)) }

\* two subtypes, the first with an unpaired document standing before the
\* two documents of a pair: the pair is shown first, then the unpaired one,
\* then the block of the second subtype
C19_Witness ==
    /\ pc = "section" /\ Len(section_sets) = 2
    /\ Len(section_sets[1].documents) = 3
    /\ section_sets[1].documents[1].pair_id = Dash
    /\ Len(sections) >= 8
    /\ sections[4].item = "SOURCE" /\ sections[4].doc = 2
    /\ sections[5].item = "TARGET" /\ sections[5].doc = 3
    /\ sections[7].item = "DOCUMENT" /\ sections[7].doc = 1
    /\ sections[8].item = "SUBTYPE" /\ sections[8].set = 2

(***************************************************************************)
(* Python floats (IEEE 754 binary64, round to nearest even) on natural     *)
(* numbers written in limbs, for cost_estimator.py                         *)
(***************************************************************************)
\* bits of the significand of a Python float
MantissaBits == 53

LimbBits == (MantissaBits + 7) \div 4

LimbBase == 2 ^ LimbBits

\* limbs of a number, enough for the product of two significands
LimbCount == (2 * MantissaBits + LimbBits - 1) \div LimbBits

Limbs == 1..LimbCount

BigZero == [i \in Limbs |-> 0]

\* a natural number below 2^31 in limbs, least significant first
BigNat(n) ==
    [i \in Limbs |->
        IF i = 1 THEN n % LimbBase
        ELSE IF i = 2 THEN (n \div LimbBase) % LimbBase
        ELSE IF i = 3 THEN (n \div LimbBase) \div LimbBase
        ELSE 0]

BigOne == BigNat(1)

\* the value of limbs that hold a number below 2^31
NatOfBig(a) == a[1] + LimbBase * (a[2] + LimbBase * a[3])

RECURSIVE AddFrom(_, _, _, _)
AddFrom(a, b, i, carry) ==
    IF i > LimbCount THEN <<>>
    ELSE LET s == a[i] + b[i] + carry
         IN  <<s % LimbBase>> \o AddFrom(a, b, i + 1, s \div LimbBase)

BigAdd(a, b) == AddFrom(a, b, 1, 0)

\* a - b for a >= b
RECURSIVE SubFrom(_, _, _, _)
SubFrom(a, b, i, borrow) ==
    IF i > LimbCount THEN <<>>
    ELSE LET s == a[i] - b[i] - borrow
         IN  IF s < 0 THEN <<s + LimbBase>> \o SubFrom(a, b, i + 1, 1)
             ELSE <<s>> \o SubFrom(a, b, i + 1, 0)

BigSub(a, b) == SubFrom(a, b, 1, 0)

RECURSIVE LessFrom(_, _, _)
LessFrom(a, b, i) ==
    IF i = 0 THEN FALSE
    ELSE IF a[i] # b[i] THEN a[i] < b[i]
    ELSE LessFrom(a, b, i - 1)

BigLess(a, b) == LessFrom(a, b, LimbCount)

BigDouble(a) == BigAdd(a, a)

BigHalve(a) ==
    [i \in Limbs |->
        (a[i] \div 2) + (IF i < LimbCount THEN (a[i + 1] % 2) * (LimbBase \div 2) ELSE 0)]

BigOdd(a) == a[1] % 2 = 1

\* limb i of a, zero outside of the limbs
LimbAt(a, i) == IF i \in Limbs THEN a[i] ELSE 0

\* a * 2^s and the whole part of a / 2^s
ShiftLeft(a, s) ==
    LET n == s \div LimbBits
        b == s % LimbBits
    IN  [i \in Limbs |->
            ((LimbAt(a, i - n) * (2 ^ b)) % LimbBase)
            + (LimbAt(a, i - n - 1) \div (2 ^ (LimbBits - b)))]

ShiftRight(a, s) ==
    LET n == s \div LimbBits
        b == s % LimbBits
    IN  [i \in Limbs |->
            (LimbAt(a, i + n) \div (2 ^ b))
            + ((LimbAt(a, i + n + 1) % (2 ^ b)) * (2 ^ (LimbBits - b)))]

\* the number of bits of a limb and of a number
RECURSIVE NatBits(_)
NatBits(n) == IF n = 0 THEN 0 ELSE 1 + NatBits(n \div 2)

RECURSIVE BitsFrom(_, _)
BitsFrom(a, i) ==
    IF i = 0 THEN 0
    ELSE IF a[i] # 0 THEN LimbBits * (i - 1) + NatBits(a[i])
    ELSE BitsFrom(a, i - 1)

BitLen(a) == BitsFrom(a, LimbCount)

\* a times a single limb d
RECURSIVE MulSmallFrom(_, _, _, _)
MulSmallFrom(a, d, i, carry) ==
    IF i > LimbCount THEN <<>>
    ELSE LET s == a[i] * d + carry
         IN  <<s % LimbBase>> \o MulSmallFrom(a, d, i + 1, s \div LimbBase)

ShiftLimbs(a, n) == [i \in Limbs |-> IF i > n THEN a[i - n] ELSE 0]

RECURSIVE MulFrom(_, _, _)
MulFrom(a, b, j) ==
    IF j > LimbCount THEN BigZero
    ELSE IF b[j] = 0 THEN MulFrom(a, b, j + 1)
    ELSE BigAdd(ShiftLimbs(MulSmallFrom(a, b[j], 1, 0), j - 1), MulFrom(a, b, j + 1))

BigMul(a, b) == MulFrom(a, b, 1)

\* the largest limb g with g * d <= t, found bit by bit from bit b downwards
RECURSIVE QuotientLimb(_, _, _, _)
QuotientLimb(t, d, b, g) ==
    IF b < 0 THEN g
    ELSE IF BigLess(t, MulSmallFrom(d, g + 2 ^ b, 1, 0)) THEN QuotientLimb(t, d, b - 1, g)
    ELSE QuotientLimb(t, d, b - 1, g + 2 ^ b)

\* quotient and remainder by d of the number made of the limbs i.. of n;
\* d leaves the top limb free
RECURSIVE DivFrom(_, _, _)
DivFrom(n, d, i) ==
    IF i > LimbCount THEN [q |-> BigZero, r |-> BigZero]
    ELSE LET up == DivFrom(n, d, i + 1)
             t  == [ShiftLimbs(up.r, 1) EXCEPT ![1] = n[i]]
             g  == QuotientLimb(t, d, LimbBits - 1, 0)
         IN  [q |-> [ShiftLimbs(up.q, 1) EXCEPT ![1] = g],
              r |-> BigSub(t, MulSmallFrom(d, g, 1, 0))]

BigDivMod(n, d) == DivFrom(n, d, 1)

\* a float is its significand m (MantissaBits bits, or zero) and exponent e:
\* the value m * 2^e
FloatZero == [m |-> BigZero, e |-> 0]

\* a significand that rounding has carried to MantissaBits + 1 bits is halved
Normalised(m, e) ==
    IF BitLen(m) > MantissaBits THEN [m |-> BigHalve(m), e |-> e + 1]
    ELSE [m |-> m, e |-> e]

RoundUp(q, up) == IF up THEN BigAdd(q, BigOne) ELSE q

\* the quotient has MantissaBits + 1 bits: q is its upper MantissaBits bits,
\* and it is rounded up above the half and to even on the half
RoundWide(qr, q, s) ==
    Normalised(RoundUp(q, BigOdd(qr.q) /\ (qr.r # BigZero \/ BigOdd(q))), 1 - s)

\* the quotient has MantissaBits bits: r2 is twice the remainder
RoundExact(qr, d1, r2, s) ==
    Normalised(RoundUp(qr.q, BigLess(d1, r2) \/ (r2 = d1 /\ BigOdd(qr.q))), 0 - s)

RoundQuotient(qr, d1, s) ==
    IF BitLen(qr.q) > MantissaBits THEN RoundWide(qr, BigHalve(qr.q), s)
    ELSE RoundExact(qr, d1, BigDouble(qr.r), s)

\* n * 2^s / d for s >= 0 and n / (d * 2^-s) for s < 0, rounded
RoundShifted(n, d, s) ==
    IF s >= 0 THEN RoundQuotient(BigDivMod(ShiftLeft(n, s), d), d, s)
    ELSE RoundQuotient(BigDivMod(n, ShiftLeft(d, 0 - s)), ShiftLeft(d, 0 - s), s)

\* the float nearest to n / d (ties to even), n and d in limbs, d # 0: the
\* shift s gives the quotient MantissaBits or MantissaBits + 1 bits
RoundRatio(n, d) ==
    IF n = BigZero THEN FloatZero
    ELSE RoundShifted(n, d, MantissaBits + BitLen(d) - BitLen(n))

\* float(n) and the true division n / d of two ints
FloatOfNat(n) == RoundRatio(BigNat(n), BigOne)

FloatOfRatio(n, d) == RoundRatio(BigNat(n), BigNat(d))

FloatScale(x, k) == IF x.m = BigZero THEN x ELSE [m |-> x.m, e |-> x.e + k]

\* x * y, x / y and x + y of floats
FloatMul(x, y) ==
    IF x.m = BigZero \/ y.m = BigZero THEN FloatZero
    ELSE FloatScale(RoundRatio(BigMul(x.m, y.m), BigOne), x.e + y.e)

FloatDiv(x, y) ==
    IF x.m = BigZero THEN FloatZero
    ELSE FloatScale(RoundRatio(x.m, y.m), x.e - y.e)

FloatAdd(x, y) ==
    IF x.m = BigZero THEN y
    ELSE IF y.m = BigZero THEN x
    ELSE LET lo == IF x.e < y.e THEN x.e ELSE y.e
         IN  FloatScale(RoundRatio(BigAdd(ShiftLeft(x.m, x.e - lo),
                                          ShiftLeft(y.m, y.e - lo)), BigOne), lo)

\* math.ceil(x) of a float x >= 0 below 2^31
FloatCeil(x) ==
    IF x.m = BigZero THEN 0
    ELSE IF x.e >= 0 THEN NatOfBig(ShiftLeft(x.m, x.e))
    ELSE LET whole == ShiftRight(x.m, 0 - x.e)
         IN  IF ShiftLeft(whole, 0 - x.e) = x.m THEN NatOfBig(whole)
             ELSE NatOfBig(whole) + 1

(***************************************************************************)
(* cost_estimator.py: estimate_cost                                        *)
(***************************************************************************)
MaxTokenSteps == 5

\* prices per million tokens, in whole dollars
PRICING ==
    [m \in { "claude-opus-4-5-20251101", "claude-sonnet-4-5", "claude-sonnet-4-20250514" } |->
        IF m = "claude-opus-4-5-20251101" THEN [input |-> 5, output |-> 25]
        ELSE [input |-> 3, output |-> 15]]

DefaultModel == "claude-opus-4-5-20251101"

\* the float 0.05
Nickel == FloatOfRatio(5, 100)

estimate_cost(input_tokens, estimated_output_tokens, model, round_to_nickel) ==
    LET pricing == IF model \in DOMAIN PRICING THEN PRICING[model]
                   ELSE PRICING[DefaultModel]
        input_cost == FloatMul(FloatOfRatio(input_tokens, 1000000),
                               FloatOfNat(pricing.input))
        output_cost == FloatMul(FloatOfRatio(estimated_output_tokens, 1000000),
                                FloatOfNat(pricing.output))
        total_cost == FloatAdd(input_cost, output_cost)
    IN  IF round_to_nickel
        THEN FloatMul(FloatOfNat(FloatCeil(FloatDiv(total_cost, Nickel))), Nickel)
        ELSE total_cost

TokenCounts == { 10000 * k : k \in 0..MaxTokenSteps }

ModelNames == DOMAIN PRICING \cup { "unknown-model" }

CostInit ==
    /\ PairsIdle /\ MatchIdle /\ ViewIdle /\ ParseIdle
    /\ ExtractIdle /\ StreamIdle /\ SectionIdle
    /\ BackendIdle
    /\ cost_call \in [input_tokens : TokenCounts, estimated_output_tokens : TokenCounts,
                      model : ModelNames, round_to_nickel : BOOLEAN]
    /\ cost_returned = <<>>
    /\ pc = "estimate_cost"

CallEstimateCost ==
    /\ pc = "estimate_cost"
    /\ cost_returned' = estimate_cost(cost_call.input_tokens,
                                      cost_call.estimated_output_tokens,
                                      cost_call.model, cost_call.round_to_nickel)
    /\ pc' = "estimated"
    /\ UNCHANGED <<outsideCost, cost_call>>

CostNext == CallEstimateCost

SpecCost == CostInit /\ [][CostNext]_vars

\* x <= y of two floats that are not negative
FloatLessEq(x, y) ==
    IF x.m = BigZero THEN TRUE
    ELSE IF y.m = BigZero THEN FALSE
    ELSE LET lo == IF x.e < y.e THEN x.e ELSE y.e
         IN  ~BigLess(ShiftLeft(y.m, y.e - lo), ShiftLeft(x.m, x.e - lo))

\* the pricing the call is charged at, and the amount of the call as the
\* expression input_tokens/1e6 * input_price + output_tokens/1e6 * output_price
PricingOf(model) ==
    IF model \in DOMAIN PRICING THEN PRICING[model] ELSE PRICING[DefaultModel]

AmountOf(c) ==
    FloatAdd(FloatMul(FloatOfRatio(c.input_tokens, 1000000),
                      FloatOfNat(PricingOf(c.model).input)),
             FloatMul(FloatOfRatio(c.estimated_output_tokens, 1000000),
                      FloatOfNat(PricingOf(c.model).output)))

\* the floats that stand for k nickels: k * 0.05 and k / 20
NickelMultiples(k) == { FloatMul(FloatOfNat(k), Nickel), FloatOfRatio(k, 20) }

\* the number of nickels of the smallest multiple of 0.05 that is at least the
\* amount: of the amount as a real number, and of the amount as the float
ExactNickels(c) ==
    (c.input_tokens * PricingOf(c.model).input
     + c.estimated_output_tokens * PricingOf(c.model).output + 49999) \div 50000

FloatNickels(c) ==
    LET amount == AmountOf(c)
        reaches == [k \in 0..(ExactNickels(c) + 1) |->
                       FloatLessEq(amount, FloatMul(FloatOfNat(k), Nickel))]
    IN  CHOOSE k \in DOMAIN reaches :
            reaches[k] /\ \A j \in 0..(k - 1) : ~reaches[j]

\* C20: for all token counts and any model name, estimate_cost equals
\* input_tokens/1e6 * input_price + output_tokens/1e6 * output_price at the
\* model's pricing (the default model's pricing for an unknown name), and with
\* round_to_nickel it returns the smallest multiple of 0.05 that is greater than
\* or equal to that amount, so an amount on a multiple of 0.05 is returned
\* unchanged and 0 tokens cost 0.  The multiple is accepted in either float
\* form, for the amount read as a real number or as the float.
C20_CostIsAmountRoundedUpToNickel ==
    pc = "estimated" =>
        IF cost_call.round_to_nickel
        THEN /\ cost_returned \in NickelMultiples(ExactNickels(cost_call))
                                  \cup NickelMultiples(FloatNickels(cost_call))
             /\ (cost_call.input_tokens = 0 /\ cost_call.estimated_output_tokens = 0)
                    => cost_returned = FloatZero
        ELSE cost_returned = AmountOf(cost_call)

(***************************************************************************)
(* file_utils.py: extract_language_from_filename                           *)
(***************************************************************************)
MaxNameTokens == 4

\* the pieces file names are made of
NameTokens ==
    { <<"c">>, <<"_">>, <<"-">>, <<"(">>, <<")">>, <<"[">>, <<"]">>,
      <<"E","N">>, <<"d","e">>, <<"X","X">>, <<".","t">> }

RECURSIVE Join(_)
Join(pieces) == IF pieces = <<>> THEN <<>> ELSE Head(pieces) \o Join(Tail(pieces))

TokenNames ==
    UNION { { Join(ps) : ps \in [1..n -> NameTokens] } : n \in 0..MaxNameTokens }

\* [A-Z]{2} at position i
TwoUpperAt(s, i) == i + 1 <= Len(s) /\ IsUpper(s[i]) /\ IsUpper(s[i + 1])

\* $ at position i: the end of the text, or just before a newline that ends it
AtDollar(s, i) == i = Len(s) + 1 \/ (i = Len(s) /\ s[i] = "\n")

\* where each pattern matches
EndMatchAt(s, i) ==
    /\ i <= Len(s) /\ s[i] \in {"_", "-"}
    /\ TwoUpperAt(s, i + 1) /\ AtDollar(s, i + 3)

BracketMatchAt(s, i) ==
    /\ i + 3 <= Len(s) /\ s[i] \in {"(", "["}
    /\ TwoUpperAt(s, i + 1) /\ s[i + 3] \in {")", "]"}

BetweenMatchAt(s, i) ==
    /\ i + 3 <= Len(s) /\ s[i] \in {"_", "-"}
    /\ TwoUpperAt(s, i + 1) /\ s[i + 3] \in {"_", "-"}

\* re.search: the group of the leftmost match, <<>> when there is no match
SearchGroup(s, MatchAt(_, _)) ==
    IF \E i \in 1..Len(s) : MatchAt(s, i)
    THEN LET i == CHOOSE i \in 1..Len(s) :
                      MatchAt(s, i) /\ \A j \in 1..(i - 1) : ~MatchAt(s, j)
         IN  SubSeq(s, i + 1, i + 2)
    ELSE <<>>

\* the test "code in LANGUAGE_CODES" without the whitelist
WhitelistedAnyCode(code) == code # <<>>

\* if match: ... if code in LANGUAGE_CODES
Whitelisted(code) == code # <<>> /\ code \in LANGUAGE_CODES

extract_language_from_filename(filename) ==
    LET stem == Upper(Stem(filename))
        end_code == SearchGroup(stem, EndMatchAt)
        bracket_code == SearchGroup(stem, BracketMatchAt)
        between_code == SearchGroup(stem, BetweenMatchAt)
    IN  IF Whitelisted(end_code) THEN end_code
        ELSE IF Whitelisted(bracket_code) THEN bracket_code
        ELSE IF Whitelisted(between_code) THEN between_code
        ELSE None

LanguageInit ==
    /\ PairsIdle /\ MatchIdle /\ ViewIdle /\ ParseIdle
    /\ ExtractIdle /\ StreamIdle /\ SectionIdle /\ CostIdle /\ CacheIdle /\ ServeIdle /\ AnalysisIdle
    /\ name_call \in { [filename |-> f] : f \in TokenNames }
    /\ name_returned = <<>>
    /\ pc = "extract_language_from_filename"

CallExtractLanguage ==
    /\ pc = "extract_language_from_filename"
    /\ name_returned' = extract_language_from_filename(name_call.filename)
    /\ pc' = "language_returned"
    /\ UNCHANGED <<pairVars, matchVars, viewVars, parseVars, extractVars, streamVars,
                   sectionVars, costVars, cacheVars, serveVars, analysisVars, name_call>>

LanguageNext == CallExtractLanguage

SpecLanguage == LanguageInit /\ [][LanguageNext]_vars

\* the two-letter fragments of the upper-cased stem that one of the three
\* patterns matches at some position
MatchedFragments(filename) ==
    LET stem == Upper(Stem(filename))
    IN  { SubSeq(stem, i + 1, i + 2) :
            i \in { j \in 1..Len(stem) :
                      \/ EndMatchAt(stem, j)
                      \/ BracketMatchAt(stem, j)
                      \/ BetweenMatchAt(stem, j) } }

\* C21: for every filename, extract_language_from_filename returns either None
\* or a member of LANGUAGE_CODES; a two-letter fragment that matches one of the
\* three patterns but is not whitelisted is never returned.
C21_LanguageIsWhitelistedOrNone ==
    pc = "language_returned" =>
        /\ name_returned = None \/ name_returned \in LANGUAGE_CODES
        /\ \A code \in MatchedFragments(name_call.filename) :
               code \notin LANGUAGE_CODES => name_returned # code

\* a name whose end matches pattern 1 with a fragment outside the whitelist,
\* answered by the whitelisted code that pattern 3 finds
C21_Witness ==
    /\ pc = "language_returned"
    /\ \E code \in MatchedFragments(name_call.filename) : code \notin LANGUAGE_CODES
    /\ name_returned \in LANGUAGE_CODES

(***************************************************************************)
(* file_utils.py: find_base_name of one stem under two language codes      *)
(***************************************************************************)
MaxStemTokens == 3

StemNames ==
    UNION { { Join(ps) : ps \in [1..n -> NameTokens] } : n \in 0..MaxStemTokens }

\* the whitelisted codes put behind the stem
TrailingCodes == { <<"E","N">>, <<"D","E">>, <<"F","R">> }

Extensions == { <<".","t">> }

\* "X_C.ext"
CodedName(stem, code, ext) == stem \o <<"_">> \o code \o ext

BaseNameInit ==
    /\ PairsIdle /\ MatchIdle /\ ViewIdle /\ ParseIdle
    /\ ExtractIdle /\ StreamIdle /\ SectionIdle /\ CostIdle /\ CacheIdle /\ ServeIdle /\ AnalysisIdle
    /\ name_call \in { c \in [stem : StemNames, c1 : TrailingCodes,
                              c2 : TrailingCodes, ext : Extensions] : c.c1 # c.c2 }
    /\ name_returned = <<>>
    /\ pc = "find_base_name"

\* find_base_name(f1), then find_base_name(f2)
CallFindBaseNameFirst ==
    /\ pc = "find_base_name"
    /\ name_returned' =
           <<find_base_name(CodedName(name_call.stem, name_call.c1, name_call.ext))>>
    /\ pc' = "first_base_name"
    /\ UNCHANGED <<pairVars, matchVars, viewVars, parseVars, extractVars, streamVars,
                   sectionVars, costVars, cacheVars, serveVars, analysisVars, name_call>>

CallFindBaseNameSecond ==
    /\ pc = "first_base_name"
    /\ name_returned' = Append(name_returned,
           find_base_name(CodedName(name_call.stem, name_call.c2, name_call.ext)))
    /\ pc' = "both_base_names"
    /\ UNCHANGED <<pairVars, matchVars, viewVars, parseVars, extractVars, streamVars,
                   sectionVars, costVars, cacheVars, serveVars, analysisVars, name_call>>

BaseNameNext == CallFindBaseNameFirst \/ CallFindBaseNameSecond

SpecBaseName == BaseNameInit /\ [][BaseNameNext]_vars

\* C22: for every stem X and every two different whitelisted codes C1 and C2,
\* find_base_name("X_C1.ext") equals find_base_name("X_C2.ext"): the comparison
\* key does not depend on the trailing language code.
C22_BaseNameIgnoresTrailingCode ==
    pc = "both_base_names" => name_returned[1] = name_returned[2]

\* a stem that itself holds a delimited code and more than one separator, so
\* that every step of find_base_name has worked on the two names
C22_Witness ==
    /\ pc = "both_base_names"
    /\ name_call.stem = <<"c", "_", "d", "e">>
    /\ name_returned = <<<<"c">>, <<"c">>>>

(***************************************************************************)
(* backend/src/cache/file_cache.py: FileCache under concurrent accessors   *)
(***************************************************************************)
NumAccessors == 2
MaxEntries == 2
MaxClock == 2
MaxCacheOps == 4

\* the expiry, in hours; the clock counts hours
CACHE_EXPIRY_HOURS == 1

Accessors == 1..NumAccessors

Ids == 1..MaxEntries

\* what store is called with
NoPayload == [filename |-> "", content |-> "", tokens |-> 0]

Payloads == { [filename |-> "a.txt", content |-> "x", tokens |-> 1] }

\* the states of <id>.json: no such file, the file that write_text has opened
\* and not yet written, and the file with the JSON text of a CachedFile
AbsentFile == [kind |-> "absent", payload |-> NoPayload, created_at |-> 0]

EmptyFile == [kind |-> "empty", payload |-> NoPayload, created_at |-> 0]

JsonFile(payload, created_at) ==
    [kind |-> "json", payload |-> payload, created_at |-> created_at]

NotStored == [used |-> FALSE, payload |-> NoPayload, created_at |-> 0, returned |-> FALSE]

NoResult == [kind |-> "none", payload |-> NoPayload]

IdleAccessor ==
    [op |-> "idle", pc |-> "idle", id |-> 0, fd |-> 0, held |-> "none", blocked |-> FALSE,
     cutoff |-> 0, todo |-> {}, payload |-> NoPayload, created_at |-> 0,
     result |-> NoResult]

\* the inode a new lock file gets: one that no directory entry and no open
\* file refers to
InodesInUse ==
    ({ cache_locks[i] : i \in Ids } \cup { accessors[q].fd : q \in Accessors }) \ {0}

FreshInode == CHOOSE n \in 1..(NumAccessors + MaxEntries + 1) :
                  n \notin InodesInUse /\ \A m \in 1..(n - 1) : m \in InodesInUse

\* the other accessors that hold a flock on the inode
Holders(inode, p) ==
    { q \in Accessors \ {p} : accessors[q].fd = inode /\ accessors[q].held # "none" }

\* what the steps inside an operation leave alone
CacheFrame ==
    UNCHANGED <<pairVars, matchVars, viewVars, parseVars, extractVars, streamVars,
                sectionVars, costVars, nameVars, serveVars, analysisVars, cache_ops, pc>>

CacheInit ==
    /\ PairsIdle /\ MatchIdle /\ ViewIdle /\ ParseIdle
    /\ ExtractIdle /\ StreamIdle /\ SectionIdle /\ CostIdle /\ NameIdle /\ ServeIdle /\ AnalysisIdle
    /\ cache_files = [i \in Ids |-> AbsentFile]
    /\ cache_locks = [i \in Ids |-> 0]
    /\ accessors = [p \in Accessors |-> IdleAccessor]
    /\ clock = 0
    /\ stored = [i \in Ids |-> NotStored]
    /\ deleted_ids = {}
    /\ cache_ops = 0
    /\ pc = "serving"

\* an accessor that is free calls the next operation
CanStart(p) == accessors[p].op = "idle" /\ cache_ops < MaxCacheOps

\* store, lines 74-82: a new uuid, the CachedFile with created_at, the path
StartStore(p) ==
    /\ CanStart(p)
    /\ \E i \in Ids : ~stored[i].used
    /\ \E payload \in Payloads :
          LET i == CHOOSE i \in Ids : ~stored[i].used /\ \A j \in 1..(i - 1) : stored[j].used
          IN  /\ stored' = [stored EXCEPT ![i] =
                    [used |-> TRUE, payload |-> payload, created_at |-> clock,
                     returned |-> FALSE]]
              /\ accessors' = [accessors EXCEPT ![p] =
                    [IdleAccessor EXCEPT !.op = "store", !.pc = "open", !.id = i,
                                         !.payload = payload, !.created_at = clock]]
    /\ cache_ops' = cache_ops + 1
    /\ UNCHANGED <<cache_files, cache_locks, clock, deleted_ids>>
    /\ UNCHANGED <<pairVars, matchVars, viewVars, parseVars, extractVars, streamVars,
                   sectionVars, costVars, nameVars, serveVars, analysisVars, pc>>

\* get, lines 97-99, with an id that store has returned
StartGet(p) ==
    /\ CanStart(p)
    /\ \E i \in Ids :
          /\ stored[i].returned
          /\ accessors' = [accessors EXCEPT ![p] =
                IF cache_files[i].kind = "absent"
                THEN [IdleAccessor EXCEPT !.op = "get", !.pc = "return", !.id = i,
                                          !.result = [kind |-> "None", payload |-> NoPayload]]
                ELSE [IdleAccessor EXCEPT !.op = "get", !.pc = "open", !.id = i]]
    /\ cache_ops' = cache_ops + 1
    /\ UNCHANGED <<cache_files, cache_locks, clock, stored, deleted_ids>>
    /\ UNCHANGED <<pairVars, matchVars, viewVars, parseVars, extractVars, streamVars,
                   sectionVars, costVars, nameVars, serveVars, analysisVars, pc>>

\* delete, lines 114-116, with an id that store has returned
StartDelete(p) ==
    /\ CanStart(p)
    /\ \E i \in Ids :
          /\ stored[i].returned
          /\ deleted_ids' = deleted_ids \cup {i}
          /\ accessors' = [accessors EXCEPT ![p] =
                IF cache_files[i].kind = "absent"
                THEN [IdleAccessor EXCEPT !.op = "delete", !.pc = "return", !.id = i,
                                          !.result = [kind |-> "False", payload |-> NoPayload]]
                ELSE [IdleAccessor EXCEPT !.op = "delete", !.pc = "open", !.id = i]]
    /\ cache_ops' = cache_ops + 1
    /\ UNCHANGED <<cache_files, cache_locks, clock, stored>>
    /\ UNCHANGED <<pairVars, matchVars, viewVars, parseVars, extractVars, streamVars,
                   sectionVars, costVars, nameVars, serveVars, analysisVars, pc>>

\* cleanup_expired, lines 125-130: the cutoff and the paths of the glob
StartCleanup(p) ==
    /\ CanStart(p)
    /\ accessors' = [accessors EXCEPT ![p] =
          [IdleAccessor EXCEPT !.op = "cleanup", !.pc = "sweep_next",
                               !.cutoff = clock - CACHE_EXPIRY_HOURS,
                               !.todo = { i \in Ids : cache_files[i].kind # "absent" }]]
    /\ cache_ops' = cache_ops + 1
    /\ UNCHANGED <<cache_files, cache_locks, clock, stored, deleted_ids>>
    /\ UNCHANGED <<pairVars, matchVars, viewVars, parseVars, extractVars, streamVars,
                   sectionVars, costVars, nameVars, serveVars, analysisVars, pc>>

\* for path in CACHE_DIR.glob("*.json"), in the order of the directory
SweepNext(p) ==
    /\ accessors[p].pc = "sweep_next"
    /\ IF accessors[p].todo = {}
       THEN accessors' = [accessors EXCEPT ![p].pc = "return", ![p].id = 0,
                                           ![p].result = [kind |-> "done", payload |-> NoPayload]]
       ELSE \E i \in accessors[p].todo :
               accessors' = [accessors EXCEPT ![p].pc = "open", ![p].id = i,
                                              ![p].blocked = FALSE,
                                              ![p].todo = accessors[p].todo \ {i}]
    /\ UNCHANGED <<cache_files, cache_locks, clock, stored, deleted_ids>>
    /\ CacheFrame

\* open(lock_path, 'w'): the lock file is created when there is none
OpenLock(p) ==
    /\ accessors[p].pc = "open"
    /\ LET i == accessors[p].id
           inode == IF cache_locks[i] # 0 THEN cache_locks[i] ELSE FreshInode
       IN  /\ cache_locks' = [cache_locks EXCEPT ![i] = inode]
           /\ accessors' = [accessors EXCEPT ![p].fd = inode, ![p].pc = "flock"]
    /\ UNCHANGED <<cache_files, clock, stored, deleted_ids>>
    /\ CacheFrame

\* fcntl.flock(fd, LOCK_EX) of store and delete: waits until nobody holds the inode
FlockExclusive(p) ==
    /\ accessors[p].pc = "flock"
    /\ accessors[p].op \in { "store", "delete" }
    /\ Holders(accessors[p].fd, p) = {}
    /\ accessors' = [accessors EXCEPT ![p].held = "EX", ![p].pc = "body"]
    /\ UNCHANGED <<cache_files, cache_locks, clock, stored, deleted_ids>>
    /\ CacheFrame

\* fcntl.flock(fd, LOCK_SH) of get: waits until nobody holds the inode exclusively
FlockShared(p) ==
    /\ accessors[p].pc = "flock"
    /\ accessors[p].op = "get"
    /\ \A q \in Holders(accessors[p].fd, p) : accessors[q].held = "SH"
    /\ accessors' = [accessors EXCEPT ![p].held = "SH", ![p].pc = "body"]
    /\ UNCHANGED <<cache_files, cache_locks, clock, stored, deleted_ids>>
    /\ CacheFrame

\* fcntl.flock(fd, LOCK_EX | LOCK_NB) of cleanup_expired: BlockingIOError when
\* somebody holds the inode, and then the finally block
FlockNonBlocking(p) ==
    /\ accessors[p].pc = "flock"
    /\ accessors[p].op = "cleanup"
    /\ accessors' = [accessors EXCEPT ![p] =
          IF Holders(accessors[p].fd, p) = {}
          THEN [accessors[p] EXCEPT !.held = "EX", !.pc = "body"]
          ELSE [accessors[p] EXCEPT !.blocked = TRUE, !.pc = "unlock"]]
    /\ UNCHANGED <<cache_files, cache_locks, clock, stored, deleted_ids>>
    /\ CacheFrame

\* path.write_text(...): the file is opened for writing, which creates or
\* empties it, and then the text is written to the opened file
StoreTruncate(p) ==
    /\ accessors[p].pc = "body" /\ accessors[p].op = "store"
    /\ cache_files' = [cache_files EXCEPT ![accessors[p].id] = EmptyFile]
    /\ accessors' = [accessors EXCEPT ![p].pc = "write"]
    /\ UNCHANGED <<cache_locks, clock, stored, deleted_ids>>
    /\ CacheFrame

StoreWrite(p) ==
    /\ accessors[p].pc = "write"
    /\ cache_files' = [cache_files EXCEPT ![accessors[p].id] =
          IF cache_files[accessors[p].id].kind = "absent" THEN AbsentFile
          ELSE JsonFile(accessors[p].payload, accessors[p].created_at)]
    /\ accessors' = [accessors EXCEPT ![p].pc = "unlock",
                                      ![p].result = [kind |-> "id", payload |-> NoPayload]]
    /\ UNCHANGED <<cache_locks, clock, stored, deleted_ids>>
    /\ CacheFrame

\* data = json.loads(path.read_text()), line 101
GetRead(p) ==
    /\ accessors[p].pc = "body" /\ accessors[p].op = "get"
    /\ LET f == cache_files[accessors[p].id]
       IN  accessors' = [accessors EXCEPT ![p].pc = "unlock", ![p].result =
              IF f.kind = "absent" THEN [kind |-> "FileNotFoundError", payload |-> NoPayload]
              ELSE IF f.kind = "empty" THEN [kind |-> "JSONDecodeError", payload |-> NoPayload]
              ELSE [kind |-> "CachedFile", payload |-> f.payload]]
    /\ UNCHANGED <<cache_files, cache_locks, clock, stored, deleted_ids>>
    /\ CacheFrame

\* lines 118-121
DeleteUnlink(p) ==
    /\ accessors[p].pc = "body" /\ accessors[p].op = "delete"
    /\ LET i == accessors[p].id
       IN  /\ cache_files' = [cache_files EXCEPT ![i] = AbsentFile]
           /\ accessors' = [accessors EXCEPT ![p].pc = "unlock", ![p].result =
                 [kind |-> IF cache_files[i].kind = "absent" THEN "False" ELSE "True",
                  payload |-> NoPayload]]
    /\ UNCHANGED <<cache_locks, clock, stored, deleted_ids>>
    /\ CacheFrame

\* lines 144-163 under the lock: an expired entry is removed, and so is a file
\* whose text is not JSON
SweepEntry(p) ==
    /\ accessors[p].pc = "body" /\ accessors[p].op = "cleanup"
    /\ LET i == accessors[p].id
           f == cache_files[i]
       IN  cache_files' = [cache_files EXCEPT ![i] =
              IF f.kind = "empty" THEN AbsentFile
              ELSE IF f.kind = "json" /\ f.created_at < accessors[p].cutoff THEN AbsentFile
              ELSE f]
    /\ accessors' = [accessors EXCEPT ![p].pc = "unlock"]
    /\ UNCHANGED <<cache_locks, clock, stored, deleted_ids>>
    /\ CacheFrame

\* fcntl.flock(fd, LOCK_UN) and lock_file.close()
Unlock(p) ==
    /\ accessors[p].pc = "unlock"
    /\ accessors' = [accessors EXCEPT ![p].held = "none", ![p].fd = 0, ![p].pc = "unlink"]
    /\ UNCHANGED <<cache_files, cache_locks, clock, stored, deleted_ids>>
    /\ CacheFrame

\* lock_path.unlink(), FileNotFoundError passed over
UnlinkLock(p) ==
    /\ accessors[p].pc = "unlink"
    /\ cache_locks' = [cache_locks EXCEPT ![accessors[p].id] = 0]
    /\ accessors' = [accessors EXCEPT ![p].pc =
          IF accessors[p].op = "cleanup" THEN "sweep_next" ELSE "return"]
    /\ UNCHANGED <<cache_files, clock, stored, deleted_ids>>
    /\ CacheFrame

\* the operation returns (or raises what result says)
CacheReturn(p) ==
    /\ accessors[p].pc = "return"
    /\ stored' = IF accessors[p].op = "store"
                 THEN [stored EXCEPT ![accessors[p].id].returned = TRUE]
                 ELSE stored
    /\ accessors' = [accessors EXCEPT ![p] = IdleAccessor]
    /\ UNCHANGED <<cache_files, cache_locks, clock, deleted_ids>>
    /\ CacheFrame

\* an hour goes by
Tick ==
    /\ clock < MaxClock
    /\ clock' = clock + 1
    /\ UNCHANGED <<cache_files, cache_locks, accessors, stored, deleted_ids>>
    /\ CacheFrame

CacheNext ==
    \/ Tick
    \/ \E p \in Accessors :
          \/ StartStore(p) \/ StartGet(p) \/ StartDelete(p) \/ StartCleanup(p)
          \/ SweepNext(p) \/ OpenLock(p)
          \/ FlockExclusive(p) \/ FlockShared(p) \/ FlockNonBlocking(p)
          \/ StoreTruncate(p) \/ StoreWrite(p) \/ GetRead(p) \/ DeleteUnlink(p)
          \/ SweepEntry(p) \/ Unlock(p) \/ UnlinkLock(p) \/ CacheReturn(p)

SpecCache == CacheInit /\ [][CacheNext]_vars

\* C23: under any interleaving of store, get, delete and cleanup_expired,
\* cleanup_expired removes only entries whose created_at is older than the
\* expiry: an entry that store has returned an id for, that was created less
\* than the expiry ago and that nobody deleted, is returned by get with the
\* stored filename, content and tokens.
C23_FreshEntriesAreReturned ==
    \A p \in Accessors :
        (/\ accessors[p].op = "get" /\ accessors[p].pc = "return"
         /\ stored[accessors[p].id].returned
         /\ accessors[p].id \notin deleted_ids
         /\ clock - stored[accessors[p].id].created_at < CACHE_EXPIRY_HOURS)
        => accessors[p].result =
               [kind |-> "CachedFile", payload |-> stored[accessors[p].id].payload]

\* C24: cleanup_expired never waits for a lock: when the lock of an entry is
\* held by another accessor at the moment the sweep reaches it, the sweep skips
\* the entry, leaves the entry and the lock file of the holder as they are, and
\* goes on to the remaining entries.
C24_SweepSkipsLockedEntries ==
    [][\A p \in Accessors :
          (/\ accessors[p].op = "cleanup" /\ accessors[p].blocked
           /\ accessors'[p] # accessors[p])
          => /\ cache_files' = cache_files
             /\ cache_locks'[accessors[p].id] = cache_locks[accessors[p].id]
             /\ accessors'[p].pc \in { "unlink", "sweep_next" }]_vars

\* C25: while one accessor holds the exclusive lock of a cache entry, no other
\* accessor holds the lock of that entry in any mode.
C25_EntryLockIsExclusive ==
    \A p, q \in Accessors :
        (p # q /\ accessors[p].held = "EX" /\ accessors[p].id = accessors[q].id)
        => accessors[q].held = "none"

(***************************************************************************)
(* The event stream of extract_with_streaming as a whole                   *)
(***************************************************************************)
TerminalTypes == { "complete", "error" }

SubtypeEndTypes == { "subtype_complete", "subtype_error" }

\* the positions of the events of a type
EventsOfType(types) == { k \in 1..Len(events) : events[k].type \in types }

\* C27: every event stream of the streaming route is well-formed: it ends with
\* exactly one terminal event (complete or error) and nothing follows it; a
\* started event is the first event; every progress event is followed by
\* exactly one of subtype_complete or subtype_error for the same subtype before
\* the progress of the next subtype, one extraction per progress event.
C27_EventStreamIsWellFormed ==
    /\ \A k \in EventsOfType(TerminalTypes) : k = Len(events) /\ pc = "done"
    /\ pc = "done" => Cardinality(EventsOfType(TerminalTypes)) = 1
    /\ \A k \in EventsOfType({ "started" }) : k = 1
    /\ \A k \in EventsOfType({ "progress" }) :
          /\ k < Len(events)
          /\ events[k + 1].type \in SubtypeEndTypes
          /\ events[k + 1].subtype = events[k].subtype
    /\ \A k \in EventsOfType(SubtypeEndTypes) :
          k > 1 /\ events[k - 1].type = "progress"
    /\ Len(extractions) = Cardinality(EventsOfType({ "progress" }))

\* a finished stream of started, two subtypes (one failed, one extracted) and
\* the complete event
C27_Witness ==
    /\ pc = "done" /\ Len(events) = 6
    /\ events[1].type = "started"
    /\ events[3].type = "subtype_error"
    /\ events[5].type = "subtype_complete"
    /\ events[6].type = "complete"

\* the positions of the extractions that returned a result
Succeeded == { k \in 1..Len(extractions) : extractions[k].outcome.kind = "return" }

\* the last extraction of a subtype that returned a result
LastSuccess(subtype) ==
    CHOOSE k \in Succeeded :
        /\ extractions[k].subtype = subtype
        /\ \A j \in Succeeded : extractions[j].subtype = subtype => j <= k

RECURSIVE SumOver(_, _)
SumOver(f, names) ==
    IF names = {} THEN 0
    ELSE LET n == CHOOSE n \in names : TRUE
         IN  f[n] + SumOver(f, names \ {n})

\* C28: after a started event the terminal event is complete if and only if at
\* least one extraction succeeded; its results hold exactly the subtypes that
\* emitted subtype_complete, each with what its extraction returned, and the
\* total token counts are the sums over those results; when every subtype
\* failed the terminal event is error.
C28_CompleteIffSomeSuccess ==
    (pc = "done" /\ Started) =>
        LET last == events[Len(events)]
            completed == { events[k].subtype : k \in EventsOfType({ "subtype_complete" }) }
        IN  /\ last.type = "complete" <=> Succeeded # {}
            /\ Succeeded = {} => last.type = "error"
            /\ last.type = "complete" =>
                  /\ DOMAIN last.results = completed
                  /\ \A n \in completed :
                        last.results[n] = extractions[LastSuccess(n)].outcome.value
                  /\ last.total_input_tokens =
                        SumOver([n \in completed |-> last.results[n].input_tokens], completed)
                  /\ last.total_output_tokens =
                        SumOver([n \in completed |-> last.results[n].output_tokens], completed)

\* three subtypes of which the second failed: complete with two results
C28_Witness ==
    /\ pc = "done" /\ Started /\ Len(extractions) = 3
    /\ Succeeded = { 1, 3 }
    /\ events[Len(events)].type = "complete"
    /\ Cardinality(DOMAIN events[Len(events)].results) = 2

(***************************************************************************)
(* extract_with_streaming: several requests served by one process          *)
(***************************************************************************)
NumRequests == 2
MaxRequestSets == 2

Requests == 1..NumRequests

\* the settings object before any request has assigned debug_mode
NoSettings == [debug_mode |-> "unset"]

ServeFrame ==
    UNCHANGED <<pairVars, matchVars, viewVars, parseVars, extractVars, streamVars,
                sectionVars, costVars, nameVars, cacheVars, analysisVars, pc>>

\* the requests as submitted: debug_mode and the number of document sets
ServeInit ==
    /\ PairsIdle /\ MatchIdle /\ ViewIdle /\ ParseIdle
    /\ ExtractIdle /\ StreamIdle /\ SectionIdle /\ CostIdle /\ NameIdle /\ CacheIdle
    /\ AnalysisIdle
    /\ shared_settings = NoSettings
    /\ in_flight \in [Requests -> [debug_mode : BOOLEAN, total : 1..MaxRequestSets,
                                   current : {0}, at : { "submitted" }]]
    /\ served = {}
    /\ pc = "serving"

\* lines 42-96 up to the first yield: settings = get_settings() is the one
\* cached object, settings.debug_mode = request.debug_mode, the started event
RequestStart(r) ==
    /\ in_flight[r].at = "submitted"
    /\ shared_settings' = [debug_mode |-> in_flight[r].debug_mode]
    /\ in_flight' = [in_flight EXCEPT ![r].at = "started"]
    /\ UNCHANGED served
    /\ ServeFrame

\* get_settings() or the assignment raises: the error event of line 149
RequestSetupFails(r) ==
    /\ in_flight[r].at = "submitted"
    /\ in_flight' = [in_flight EXCEPT ![r].at = "done"]
    /\ UNCHANGED <<shared_settings, served>>
    /\ ServeFrame

\* line 104: the progress event of the next document set
RequestProgress(r) ==
    /\ in_flight[r].at = "started"
    /\ in_flight[r].current < in_flight[r].total
    /\ in_flight' = [in_flight EXCEPT ![r].at = "progress"]
    /\ UNCHANGED <<shared_settings, served>>
    /\ ServeFrame

\* lines 109-111: asyncio.to_thread(extract_rules_and_guidelines, settings, doc_set)
\* starts the extraction in a worker thread and the event loop goes on
RequestAwaitsThread(r) ==
    /\ in_flight[r].at = "progress"
    /\ in_flight' = [in_flight EXCEPT ![r].at = "extracting"]
    /\ UNCHANGED <<shared_settings, served>>
    /\ ServeFrame

\* extractor.py:484, in the worker thread: `if settings.debug_mode:` decides
\* between the debug placeholder and the call of the LLM client
ThreadReadsDebugMode(r) ==
    /\ in_flight[r].at = "extracting"
    /\ served' = served \cup
          { [request |-> r, subtype |-> in_flight[r].current + 1,
             asked |-> in_flight[r].debug_mode,
             in_effect |-> shared_settings.debug_mode,
             llm_call |-> ~shared_settings.debug_mode,
             placeholder |-> shared_settings.debug_mode] }
    /\ in_flight' = [in_flight EXCEPT ![r].at = "extracted"]
    /\ UNCHANGED shared_settings
    /\ ServeFrame

\* lines 113-131: the result is kept and subtype_complete or subtype_error yielded
RequestSubtypeEvent(r) ==
    /\ in_flight[r].at = "extracted"
    /\ in_flight' = [in_flight EXCEPT ![r].at = "started",
                                      ![r].current = in_flight[r].current + 1]
    /\ UNCHANGED <<shared_settings, served>>
    /\ ServeFrame

\* lines 133-145: the last event
RequestFinish(r) ==
    /\ in_flight[r].at = "started"
    /\ in_flight[r].current = in_flight[r].total
    /\ in_flight' = [in_flight EXCEPT ![r].at = "done"]
    /\ UNCHANGED <<shared_settings, served>>
    /\ ServeFrame

ServeNext ==
    \E r \in Requests :
        \/ RequestStart(r) \/ RequestSetupFails(r) \/ RequestProgress(r)
        \/ RequestAwaitsThread(r) \/ ThreadReadsDebugMode(r)
        \/ RequestSubtypeEvent(r) \/ RequestFinish(r)

SpecServe == ServeInit /\ [][ServeNext]_vars

Pairable(i, j) ==
    /\ i # j
    /\ df[i].Language # UNKNOWN
    /\ df[j].Language # UNKNOWN
    /\ df[i].Language # df[j].Language
    /\ find_base_name(df[i].Filename) # <<>>
    /\ find_base_name(df[i].Filename) = find_base_name(df[j].Filename)

\* C29: full-set pairing is maximal: after find_pairs has run over a document
\* list, no two documents that are both left unpaired ("-") have known and
\* different languages and the same non-empty base name; a list of c_EN.t
\* (EN) and c_DE.t (DE) ends with both rows sharing one pair id.
C29_PairingIsMaximal ==
    pc = "done" =>
        /\ \A i, j \in 1..Len(df) :
              Pairable(i, j) => ~(df[i].Pair = Dash /\ df[j].Pair = Dash)
        /\ (/\ Len(df) = 2
            /\ df[1].Filename = <<"c","_","E","N",".","t">>
            /\ df[1].Language = <<"E","N">>
            /\ df[2].Filename = <<"c","_","D","E",".","t">>
            /\ df[2].Language = <<"D","E">>)
           => (df[1].Pair = df[2].Pair /\ df[1].Pair # Dash)

\* a file of another base name stands between two pairable files, which are
\* paired all the same while it stays alone
C29_Witness ==
    /\ pc = "done"
    /\ Len(df) = 3
    /\ Pairable(1, 3)
    /\ df[2].Language # UNKNOWN
    /\ df[2].Language # df[1].Language
    /\ find_base_name(df[2].Filename) # find_base_name(df[1].Filename)
    /\ df[1].Pair = df[3].Pair
    /\ df[1].Pair # Dash
    /\ df[2].Pair = Dash

(***************************************************************************)
(* analysis.py: run_auto_detect                                            *)
(***************************************************************************)
MaxAnalysisFiles == 3

\* filenames and detected languages of the cached files; the content of a
\* cached file is represented by what detect_language returns for it
AnalysisFileNames ==
    { <<"c","_","E","N",".","t">>, <<"c","_","D","E",".","t">>, <<"g","_","D","E",".","t">> }

AnalysisLanguages == { <<"E","N">>, <<"D","E">>, UNKNOWN }

NoResponse == <<>>

AnalysisFrame ==
    UNCHANGED <<pairVars, matchVars, viewVars, parseVars, extractVars, streamVars,
                sectionVars, costVars, nameVars, cacheVars, serveVars>>

\* a request of up to MaxAnalysisFiles file references; file_id k is the k-th
\* reference, and a reference is either in the cache or not
AnalysisInit ==
    /\ PairsIdle /\ MatchIdle /\ ViewIdle /\ ParseIdle
    /\ ExtractIdle /\ StreamIdle /\ SectionIdle /\ CostIdle /\ NameIdle /\ CacheIdle
    /\ ServeIdle
    /\ \E n \in 0..MaxAnalysisFiles :
          \E fs \in [1..n -> AnalysisFileNames], ls \in [1..n -> AnalysisLanguages],
             cs \in [1..n -> BOOLEAN] :
              request_files = [k \in 1..n |->
                  [file_id |-> k, filename |-> fs[k], language |-> ls[k], cached |-> cs[k]]]
    /\ analysis_results = <<>>
    /\ paired_ids = {}
    /\ pair_counter = 0
    /\ scan = [i |-> 0, j |-> 0, missing_files |-> <<>>]
    /\ analysis_response = NoResponse
    /\ pc = "run_auto_detect"

\* lines 35-44: an empty request is refused; results = [], missing_files = []
AnalysisValidate ==
    /\ pc = "run_auto_detect"
    /\ IF Len(request_files) = 0
       THEN /\ analysis_response' = [error |-> "No files provided for analysis"]
            /\ pc' = "done"
            /\ UNCHANGED scan
       ELSE /\ scan' = [scan EXCEPT !.i = 1]
            /\ pc' = "first_pass"
            /\ UNCHANGED analysis_response
    /\ UNCHANGED <<request_files, analysis_results, paired_ids, pair_counter>>
    /\ AnalysisFrame

\* lines 47-68: one file reference of the first pass
DetectLanguageStep ==
    /\ pc = "first_pass"
    /\ scan.i <= Len(request_files)
    /\ LET file_ref == request_files[scan.i]
       IN  IF ~file_ref.cached
           THEN /\ scan' = [scan EXCEPT !.i = scan.i + 1,
                               !.missing_files = Append(scan.missing_files,
                                                        file_ref.file_id)]
                /\ UNCHANGED analysis_results
           ELSE /\ scan' = [scan EXCEPT !.i = scan.i + 1]
                /\ analysis_results' = Append(analysis_results,
                       [file_id |-> file_ref.file_id, filename |-> file_ref.filename,
                        language |-> file_ref.language, pair_id |-> None])
    /\ UNCHANGED <<request_files, paired_ids, pair_counter, analysis_response, pc>>
    /\ AnalysisFrame

\* lines 70-78: the errors after the first pass, or pair_counter = 1,
\* paired_ids = set() and the head of the outer loop
FirstPassEnd ==
    /\ pc = "first_pass"
    /\ scan.i > Len(request_files)
    /\ IF scan.missing_files # <<>>
       THEN /\ analysis_response' = [error |-> "Files not found in cache"]
            /\ pc' = "done"
            /\ UNCHANGED <<scan, pair_counter, paired_ids>>
       ELSE IF analysis_results = <<>>
       THEN /\ analysis_response' = [error |-> "No valid files to analyze"]
            /\ pc' = "done"
            /\ UNCHANGED <<scan, pair_counter, paired_ids>>
       ELSE /\ pair_counter' = 1
            /\ paired_ids' = {}
            /\ scan' = [scan EXCEPT !.i = 1, !.j = 0]
            /\ pc' = "second_pass"
            /\ UNCHANGED analysis_response
    /\ UNCHANGED <<request_files, analysis_results>>
    /\ AnalysisFrame

\* lines 80-82: the head of the outer loop
OuterStep ==
    /\ pc = "second_pass"
    /\ scan.j = 0
    /\ scan.i <= Len(analysis_results)
    /\ IF analysis_results[scan.i].file_id \in paired_ids
       THEN scan' = [scan EXCEPT !.i = scan.i + 1]
       ELSE scan' = [scan EXCEPT !.j = scan.i + 1]
    /\ UNCHANGED <<request_files, analysis_results, paired_ids, pair_counter,
                   analysis_response, pc>>
    /\ AnalysisFrame

\* lines 93-98: find_translation_pair(filename, language, [(filename_b,
\* language_b)], contents); file_utils.py:214 unpacks every candidate into
\* three names and raises ValueError for a tuple of another length
PairCheck(file_a, file_b) ==
    LET candidates == << <<file_b.filename, file_b.language>> >>
    IN  IF \E k \in 1..Len(candidates) : Len(candidates[k]) # 3
        THEN "ValueError"
        ELSE find_translation_pair(file_a.filename, file_a.language, candidates)

\* lines 84-109: one file_b of the inner loop; both files are still cached
CheckPair ==
    /\ pc = "second_pass"
    /\ scan.j # 0
    /\ scan.j <= Len(analysis_results)
    /\ LET file_a == analysis_results[scan.i]
           file_b == analysis_results[scan.j]
           is_pair == PairCheck(file_a, file_b)
       IN  IF file_b.file_id \in paired_ids \/ is_pair = "ValueError" \/ is_pair = None
           THEN /\ scan' = [scan EXCEPT !.j = scan.j + 1]
                /\ UNCHANGED <<analysis_results, paired_ids, pair_counter>>
           ELSE /\ analysis_results' =
                       [analysis_results EXCEPT ![scan.i].pair_id = Str(pair_counter),
                                                ![scan.j].pair_id = Str(pair_counter)]
                /\ paired_ids' = paired_ids \cup {file_a.file_id, file_b.file_id}
                /\ pair_counter' = pair_counter + 1
                /\ scan' = [scan EXCEPT !.i = scan.i + 1, !.j = 0]
    /\ UNCHANGED <<request_files, analysis_response, pc>>
    /\ AnalysisFrame

\* the inner loop is exhausted: the next file_a
InnerEnd ==
    /\ pc = "second_pass"
    /\ scan.j > Len(analysis_results)
    /\ scan' = [scan EXCEPT !.i = scan.i + 1, !.j = 0]
    /\ UNCHANGED <<request_files, analysis_results, paired_ids, pair_counter,
                   analysis_response, pc>>
    /\ AnalysisFrame

\* lines 111-120: the counts and the response
AnalysisRespond ==
    /\ pc = "second_pass"
    /\ scan.j = 0
    /\ scan.i > Len(analysis_results)
    /\ LET paired == Cardinality({ k \in 1..Len(analysis_results) :
                                      analysis_results[k].pair_id # None })
       IN  analysis_response' = [files |-> analysis_results,
                        paired_count |-> paired \div 2,
                        unpaired_count |-> Len(analysis_results) - paired]
    /\ pc' = "done"
    /\ UNCHANGED <<request_files, analysis_results, paired_ids, pair_counter, scan>>
    /\ AnalysisFrame

AnalysisNext ==
    \/ AnalysisValidate
    \/ DetectLanguageStep
    \/ FirstPassEnd
    \/ OuterStep
    \/ CheckPair
    \/ InnerEnd
    \/ AnalysisRespond

SpecAnalysis == AnalysisInit /\ [][AnalysisNext]_vars

\* the response carries the analysed files
Answered == pc = "done" /\ analysis_response # NoResponse /\ "files" \in DOMAIN analysis_response

\* files a and b of the response share a non-empty base name and their
\* detected languages are known and differ
PairableFiles(a, b) ==
    /\ a.language # UNKNOWN
    /\ b.language # UNKNOWN
    /\ a.language # b.language
    /\ find_base_name(a.filename) # <<>>
    /\ find_base_name(a.filename) = find_base_name(b.filename)

\* C30: the auto-detect endpoint pairs cached files: two analysed files whose
\* filenames share a base name and whose detected languages differ are not
\* both left without a pair id, two such files that are the whole request get
\* the same pair id, every pair id is carried by exactly two files,
\* paired_count is the number of pairs and 2 * paired_count + unpaired_count
\* is the number of files analysed.
C30_AnalysisPairsCachedFiles ==
    Answered =>
        LET files == analysis_response.files
            ids == { files[k].pair_id : k \in 1..Len(files) } \ {None}
        IN  /\ \A a, b \in 1..Len(files) :
                  (a # b /\ PairableFiles(files[a], files[b]))
                      => ~(files[a].pair_id = None /\ files[b].pair_id = None)
            /\ (Len(files) = 2 /\ PairableFiles(files[1], files[2]))
                  => (files[1].pair_id = files[2].pair_id /\ files[1].pair_id # None)
            /\ \A p \in ids :
                  Cardinality({ k \in 1..Len(files) : files[k].pair_id = p }) = 2
            /\ analysis_response.paired_count = Cardinality(ids)
            /\ 2 * analysis_response.paired_count + analysis_response.unpaired_count = Len(files)

====
